---- MODULE Spec2Model ----
(***************************************************************************)
(* A model of the OTP cluster of toontown-otp: the Message Director        *)
(* (realtime/messagedirector.py over realtime/io.py), the State Server     *)
(* (realtime/stateserver.py) and the interest bookkeeping of the Client    *)
(* Agent (realtime/clientagent.py).                                        *)
(*                                                                         *)
(* A datagram is the sequence of the fields written into it, in order.     *)
(*   routed  : << 1, channel, sender, message_type >> \o payload           *)
(*   control : << 1, CONTROL_MESSAGE, message_type, channel >> \o inner    *)
(* A handler reads the fields back by position, as the datagram iterator   *)
(* does.                                                                   *)
(*                                                                         *)
(* What the model assumes or leaves out:                                   *)
(*  - ClientAgent derives from NetworkListener and NetworkConnector, in    *)
(*    that order, and both define handle_send_connection_datagram: the     *)
(*    listener's body is "pass" (io.py 686-687), the connector's writes to *)
(*    the Message Director (io.py 293-298). Python resolves the agent's    *)
(*    calls to the listener's, so the agent as written sends nothing       *)
(*    upstream. The model gives the agent the connector's method, the one  *)
(*    its handlers are written for; every property of the cluster below    *)
(*    that involves a client's request is checked under this assumption.   *)
(*  - NetworkHandler.handle_disconnect (io.py 472-477) calls the           *)
(*    listener's handle_disconnect without the handler it takes            *)
(*    (io.py 689-694), which raises as written. The model closes the       *)
(*    connection and shuts the handler down, as the listener's method      *)
(*    does for the handler it is given.                                    *)
(*  - The object part of a channel is DoIdBits bits wide, not 32.          *)
(*  - The cluster starts with the State Server registered and every client *)
(*    connected and logged in (its channel is account << DoIdBits);        *)
(*    SpecLogin starts earlier, with every client connected only.          *)
(*  - A client's avatar is generated with its required fields and an empty *)
(*    OTHER section; a shard's name and population are left out.           *)
(*  - game/ZoneUtil.py is not among the sources: isPlayground,             *)
(*    getWhereName and getBranchZone are modelled from the description of  *)
(*    the world topology (the zones of a hood are HoodSize apart, those of *)
(*    a branch share all but their digits below BranchSize). Only          *)
(*    SpecStreet has zones of a street.                                    *)
(*  - A peer of the cluster begins an operation only while fewer than      *)
(*    MaxInFlight datagrams wait in the Message Director's queue.          *)
(*  - The Database Server is modelled alone, fed the datagrams util.py      *)
(*    builds, over DatabaseJSONFile (database.py 654). notify.error and    *)
(*    notify.warning log and return (notifier.py 49-53). An exception      *)
(*    that leaves an operation leaves the flush task and task_mgr.run()    *)
(*    (main.py 89): the process ends, its directory stays, and the server  *)
(*    may be set up again over it.                                         *)
(*  - UniqueIdAllocator is Panda3D's: the model hands out the ids of the   *)
(*    range in ascending order and, once none is left, the false value     *)
(*    DatabaseCreateFSM tests for (database.py 453-454).                   *)
(*  - The dc file is not among the sources: the Database Server's classes  *)
(*    and fields are two of each, every field a "db" field with one        *)
(*    parameter, one of them with a default value. A request names only    *)
(*    fields the class has.                                                *)
(*  - SpecOperations and SpecInterface put the Client Agent's operations   *)
(*    before the Database Server: no client is connected at first, a       *)
(*    connection is accepted at most once per client, and the agent's      *)
(*    channel allocator (Panda3D's) hands a new connection any channel     *)
(*    that no connection holds, a freed one included. The requests reach   *)
(*    the server, and its responses the agent, in the order they were      *)
(*    sent, without the Message Director's queue in between. Account is    *)
(*    the server's second class and ACCOUNT_AV_SET its second field; an    *)
(*    avatar list is stored as one number whose digits are the ids.        *)
(*    Contexts are ContextBits wide, not 32, and the clients begin at      *)
(*    most MaxRequests operations in a run. In SpecInterface at most       *)
(*    MaxUnexpected failure replies that no request has caused arrive.     *)
(***************************************************************************)
EXTENDS Integers, Sequences, FiniteSets, TLC

\* Python's None; also the channel 0 that "if not channel" treats as absent.
None == 0

-----------------------------------------------------------------------------
(* Message types and reserved channels (realtime/types.py). The numbers are *)
(* tags: the handlers only compare them for equality.                      *)

CONTROL_MESSAGE == 4001
CONTROL_SET_CHANNEL == 2001
CONTROL_REMOVE_CHANNEL == 2002
CONTROL_ADD_POST_REMOVE == 2010
CONTROL_CLEAR_POST_REMOVE == 2011

-----------------------------------------------------------------------------
(* Message types and reserved channels of the State Server and the Client  *)
(* Agent (realtime/types.py): tags again, compared for equality only. The   *)
(* two reserved channels are channels no object or connection uses.        *)

STATESERVER_CHANNEL == 14
DATABASE_CHANNEL == 15

STATESERVER_ADD_SHARD == 2100
STATESERVER_UPDATE_SHARD == 2101
STATESERVER_REMOVE_SHARD == 2102
STATESERVER_GET_SHARD_ALL == 2103
STATESERVER_GET_SHARD_ALL_RESP == 2104
STATESERVER_OBJECT_GENERATE_WITH_REQUIRED == 2110
STATESERVER_OBJECT_GENERATE_WITH_REQUIRED_OTHER == 2111
STATESERVER_OBJECT_UPDATE_FIELD == 2112
STATESERVER_OBJECT_DELETE_RAM == 2113
STATESERVER_OBJECT_SET_OWNER == 2120
STATESERVER_OBJECT_CHANGING_OWNER == 2121
STATESERVER_OBJECT_ENTER_OWNER_WITH_REQUIRED == 2122
STATESERVER_OBJECT_ENTER_OWNER_WITH_REQUIRED_OTHER == 2123
STATESERVER_OBJECT_SET_AI == 2130
STATESERVER_OBJECT_CHANGING_AI == 2131
STATESERVER_OBJECT_ENTER_AI_WITH_REQUIRED == 2132
STATESERVER_OBJECT_ENTER_AI_WITH_REQUIRED_OTHER == 2133
STATESERVER_OBJECT_SET_ZONE == 2140
STATESERVER_OBJECT_SET_LOCATION == 2141
STATESERVER_OBJECT_CHANGING_LOCATION == 2142
STATESERVER_OBJECT_ENTER_LOCATION_WITH_REQUIRED == 2143
STATESERVER_OBJECT_ENTER_LOCATION_WITH_REQUIRED_OTHER == 2144
STATESERVER_OBJECT_LOCATION_ACK == 2145
STATESERVER_OBJECT_GET_ZONES_OBJECTS == 2146
STATESERVER_OBJECT_GET_ZONES_OBJECTS_RESP == 2147
DBSERVER_OBJECT_SET_FIELD == 2150
DBSERVER_CREATE_OBJECT == 2151
DBSERVER_CREATE_OBJECT_RESP == 2152
DBSERVER_OBJECT_GET_ALL == 2153
DBSERVER_OBJECT_GET_ALL_RESP == 2154
DBSERVER_OBJECT_SET_FIELD_IF_EQUALS == 2155
DBSERVER_OBJECT_SET_FIELD_IF_EQUALS_RESP == 2156
CLIENTAGENT_DISCONNECT == 2160
CLIENT_DISCONNECT_SHARD_CLOSED == 153

CLIENT_GO_GET_LOST == 4
CLIENT_DISCONNECT_INVALID_MSGTYPE == 108
CLIENT_DISCONNECT_ANONYMOUS_VIOLATION == 113
CLIENT_HEARTBEAT == 52
CLIENT_LOGIN_2 == 16
CLIENT_DISCONNECT == 37
CLIENT_GET_SHARD_LIST == 8
CLIENT_SET_AVATAR == 32
CLIENT_REMOVE_FRIEND == 56
CLIENT_SET_SHARD == 31
CLIENT_SET_ZONE == 29
CLIENT_OBJECT_UPDATE_FIELD == 23
CLIENT_GET_SHARD_LIST_RESP == 9
CLIENT_GET_AVATAR_DETAILS_RESP == 15
CLIENT_GET_STATE_RESP == 47
CLIENT_DONE_SET_ZONE_RESP == 48
CLIENT_OBJECT_UPDATE_FIELD_RESP == 24
CLIENT_OBJECT_DELETE_RESP == 27
CLIENT_CREATE_OBJECT_REQUIRED == 34
CLIENT_CREATE_OBJECT_REQUIRED_OTHER == 35

\* the quiet zone every client keeps in its interest (ToontownGlobals.QuietZone)
OTP_ZONE_ID_OLD_QUIET_ZONE == 1

\* game/ToontownGlobals.py: a playground and the first of its street branches
ToontownCentral == 2000
SillyStreet == 2100

\* the end of the range of street zones a client in a branch is interested in
BRANCH_INTEREST_END == 50

\* game/ZoneUtil.py: a hood's zones are HoodSize apart, the zones of one of its
\* branches share all but the low digits below BranchSize
HoodSize == 1000
BranchSize == 100

\* get_seen_object_zone's -1, get_zone_from_child's None: no zone holds the object
NoZone == -1

\* the prefixes of the puppet and the account connection channels
PuppetPrefix == 1001
AccountPrefix == 1003

\* the dclass of an avatar, the one class the Client Agent knows by name
DistributedToon == 1

-----------------------------------------------------------------------------
(* Bounds and input domains of the cluster.                                 *)

\* the width of the object part of a channel: 32 in io.py, narrowed so that
\* a channel fits the model checker's integers
DoIdBits == 4
\* datagrams in the Message Director's queue when a peer of the cluster
\* starts an operation
MaxInFlight == 1

\* the fields of the dclasses, by number, with the keywords the handlers test;
\* every class of the model declares all of them
Flags(ownsend, clsend, broadcast, ram, required, db) ==
    [ ownsend |-> ownsend, clsend |-> clsend, broadcast |-> broadcast,
      ram |-> ram, required |-> required, db |-> db ]

DCFields ==
    << Flags(FALSE, TRUE, TRUE, TRUE, FALSE, FALSE),
       Flags(TRUE, FALSE, TRUE, FALSE, FALSE, FALSE),
       Flags(TRUE, TRUE, FALSE, TRUE, FALSE, FALSE),
       Flags(FALSE, FALSE, TRUE, TRUE, TRUE, FALSE),
       Flags(FALSE, FALSE, FALSE, FALSE, FALSE, TRUE) >>

\* dclasses_by_number: the avatar's class, a district's, an AI object's
DCClasses == { DistributedToon, DistributedToon + 1, DistributedToon + 2 }

-----------------------------------------------------------------------------
(* Bounds and input domains of the Message Director model.                 *)

\* routed datagrams waiting in the Message Director's queue, replays aside
MaxQueue == 1
\* post-remove datagrams registered or replayed into the queue at a time
MaxPostRemoves == 2

\* the connections the listener accepts over a run; an id is never reused
Conns == {1, 2}
\* the channels peers bind; a routed datagram may also name the null channel 0
Channels == {1, 2}
Senders == {5}
MsgTypes == {20}
Payloads == {<< >>, << 9 >>}

\* NetworkDatagram.add_header, then the payload
RoutedDatagram(channel, sender, message_type, payload) ==
    << 1, channel, sender, message_type >> \o payload

\* NetworkDatagram.add_control_header, then the inner datagram
ControlDatagram(channel, message_type, inner) ==
    << 1, CONTROL_MESSAGE, message_type, channel >> \o inner

RoutedDatagrams ==
    { RoutedDatagram(c, s, t, p) : c \in Channels \cup {0}, s \in Senders, t \in MsgTypes, p \in Payloads }

\* the datagrams peers register as post-removes: routed datagrams, as the
\* cluster's own components register them (clientagent.py, _handle_activate_avatar)
PostRemoveDatagrams ==
    { RoutedDatagram(c, s, t, << >>) : c \in Channels, s \in Senders, t \in MsgTypes }

-----------------------------------------------------------------------------
VARIABLES
    conn,              \* NetworkListener: "new", "open" (in _handlers), "closed"
    participants,      \* ParticipantInterface._participants: channel -> connection | None
    channel2handlers,  \* NetworkListener._channel2handlers: channel -> connection | None
    post_messages,     \* MessageInterface._post_messages: channel -> sequence of datagrams
    messages,          \* MessageInterface._messages: sequence of message handles
    wire,              \* history: the datagram as sent, for each handle in messages
    last,              \* history: the last operation and the events it caused, in order
    lastOp,            \* history: channel -> the last SET/REMOVE_CHANNEL message naming it
    shards,            \* ShardManager.shards: channel -> Shard
    objects,           \* StateObjectManager.objects: do_id -> StateObject
    clients,           \* the Client Agent's handlers: client -> Client
    client_channels,   \* the Client Agent's _channel2handlers: channel -> client | None
    step,              \* history: the last step of the cluster and what it wrote
    used,              \* history: how many operations of each bounded kind have begun
    track,             \* history: what the properties of the cluster remember
    database,          \* the Database Server: its memory, its directory, its history
    agent              \* the Client Agent's account manager and database interface

mdVars == << conn, participants, channel2handlers, post_messages, messages, wire, last, lastOp >>

clusterVars == << shards, objects, clients, client_channels, step, used, track, database, agent >>

vars == << mdVars, clusterVars >>

\* The Message Director's dictionaries and queues as one record, so that a
\* handler is a function from record to record and calls compose.
MD == [ participants |-> participants, channel2handlers |-> channel2handlers,
        post_messages |-> post_messages, messages |-> messages, wire |-> wire,
        events |-> << >> ]

-----------------------------------------------------------------------------
(* realtime/messagedirector.py and realtime/io.py: the Message Director.   *)

\* io.py NetworkHandler.__init__: a handler built without a channel has
\* _old_channel = _channel = _allocated_channel = 0
NewHandlerChannel == 0

Event(ev, channel, dg) == [ ev |-> ev, channel |-> channel, dg |-> dg ]

MessageHandle(channel, sender, message_type, datagram) ==
    [ channel |-> channel, sender |-> sender, message_type |-> message_type,
      datagram |-> datagram ]

has_participant(s, channel) == s.participants[channel] # None

get_participant(s, channel) == s.participants[channel]

add_participant_overwrite(s, channel, participant) ==
    [ s EXCEPT !.participants[channel] = participant ]

add_participant(s, channel, participant) ==
    IF has_participant(s, channel)
    THEN s
    ELSE [ s EXCEPT !.participants[channel] = participant ]

has_channel_to_handler(s, channel) == s.channel2handlers[channel] # None

add_channel_to_handler(s, channel, handler) ==
    IF has_channel_to_handler(s, channel)
    THEN s
    ELSE [ s EXCEPT !.channel2handlers[channel] = handler ]

remove_channel_to_handler(s, channel) ==
    IF ~has_channel_to_handler(s, channel)
    THEN s
    ELSE [ s EXCEPT !.channel2handlers[channel] = None ]

append_handle(s, channel, sender, message_type, datagram) ==
    IF channel = 0
    THEN s
    ELSE [ s EXCEPT !.messages = Append(@, MessageHandle(channel, sender, message_type, datagram)) ]

append_post_handle(s, channel, datagram) ==
    [ s EXCEPT !.post_messages[channel] = Append(@, datagram) ]

\* an absent key and an empty deque are both falsy everywhere they are read
clear_post_handles(s, channel) ==
    IF s.post_messages[channel] = << >>
    THEN s
    ELSE [ s EXCEPT !.post_messages[channel] = << >> ]

\* the listener's handle_send_connection_datagram does nothing: the Message
\* Director has no upstream connection
NetworkListener_handle_send_connection_datagram(s, datagram) == s

NetworkHandler_register_for_channel(s, handler, channel) ==
    add_channel_to_handler(
        NetworkListener_handle_send_connection_datagram(
            s, ControlDatagram(channel, CONTROL_SET_CHANNEL, << >>)),
        channel, handler)

NetworkHandler_unregister_for_channel(s, handler, channel) ==
    remove_channel_to_handler(
        NetworkListener_handle_send_connection_datagram(
            s, ControlDatagram(channel, CONTROL_REMOVE_CHANNEL, << >>)),
        channel)

Participant_register_for_channel(s, handler, channel) ==
    add_participant(NetworkHandler_register_for_channel(s, handler, channel), channel, handler)

RECURSIVE Participant_handle_datagram(_, _, _)
RECURSIVE flush_post_loop(_, _, _, _)

\* the loop of flush_post_handles: n times, pop the head of the channel's deque
\* and have the bound participant handle it as if it had just been received
flush_post_loop(s, channel, participant, n) ==
    IF n = 0 \/ s.post_messages[channel] = << >>
    THEN s
    ELSE LET datagram == Head(s.post_messages[channel])
             popped == [ s EXCEPT !.post_messages[channel] = Tail(@),
                                  !.events = Append(@, Event("replay", channel, datagram)) ]
         IN flush_post_loop(Participant_handle_datagram(popped, participant, datagram),
                            channel, participant, n - 1)

flush_post_handles(s, channel) ==
    IF s.post_messages[channel] = << >>
    THEN s
    ELSE IF get_participant(s, channel) = None
    THEN s
    ELSE clear_post_handles(
             flush_post_loop(s, channel, get_participant(s, channel),
                             Len(s.post_messages[channel])),
             channel)

remove_participant_unbind_first(s, channel) ==
    IF ~has_participant(s, channel)
    THEN s
    ELSE flush_post_handles(
             [ s EXCEPT !.participants[channel] = None,
                        !.events = Append(@, Event("unbind", channel, << >>)) ],
             channel)

remove_participant_flush_only(s, channel) ==
    IF ~has_participant(s, channel)
    THEN s
    ELSE flush_post_handles(s, channel)

remove_participant(s, channel) ==
    IF ~has_participant(s, channel)
    THEN s
    ELSE [ flush_post_handles(s, channel)
             EXCEPT !.participants[channel] = None,
                    !.events = Append(@, Event("unbind", channel, << >>)) ]

Participant_unregister_for_channel(s, handler, channel) ==
    NetworkHandler_unregister_for_channel(remove_participant(s, channel), handler, channel)

Participant_handle_datagram(s, handler, dg) ==
    LET channels == dg[1]
        channel == dg[2]
    IN IF channels = 1 /\ channel = CONTROL_MESSAGE
       THEN LET message_type == dg[3]
                sender == dg[4]
            IN CASE message_type = CONTROL_SET_CHANNEL ->
                        Participant_register_for_channel(s, handler, sender)
                 [] message_type = CONTROL_REMOVE_CHANNEL ->
                        Participant_unregister_for_channel(s, handler, sender)
                 [] message_type = CONTROL_ADD_POST_REMOVE ->
                        append_post_handle(s, sender, SubSeq(dg, 5, Len(dg)))
                 [] message_type = CONTROL_CLEAR_POST_REMOVE ->
                        clear_post_handles(s, sender)
                 [] OTHER -> s
       ELSE LET queued == append_handle(s, channel, dg[3], dg[4], SubSeq(dg, 5, Len(dg)))
            IN IF Len(queued.messages) > Len(s.messages)
               THEN [ queued EXCEPT !.wire = Append(@, dg) ]
               ELSE queued

\* NetworkHandler.shutdown of a participant: unregister the handler's
\* _old_channel, _channel and _allocated_channel, each if it is not zero
NetworkHandler_shutdown(s, handler, old_channel, channel, allocated_channel) ==
    LET s1 == IF old_channel # 0
              THEN Participant_unregister_for_channel(s, handler, old_channel) ELSE s
        s2 == IF channel # 0
              THEN Participant_unregister_for_channel(s1, handler, channel) ELSE s1
    IN IF allocated_channel # 0
       THEN Participant_unregister_for_channel(s2, handler, allocated_channel) ELSE s2

\* route_datagram: a fresh datagram with the handle's header and payload
route_datagram_swapped(message_handle) ==
    RoutedDatagram(message_handle.sender, message_handle.channel,
                   message_handle.message_type, message_handle.datagram)

route_datagram(message_handle) ==
    RoutedDatagram(message_handle.channel, message_handle.sender,
                   message_handle.message_type, message_handle.datagram)

\* NetworkListener.handle_send_datagram writes only to a connection in _handlers
has_handler(connection) == conn[connection] = "open"

\* MessageInterface.__flush: the queue msgs is drained in order; each handle
\* whose channel has a participant is routed to it, and the listener writes the
\* datagram if the participant's connection is still one of its handlers
RECURSIVE flush(_)
flush(msgs) ==
    IF msgs = << >>
    THEN << >>
    ELSE LET participant == participants[Head(msgs).channel]
         IN (IF participant # None /\ has_handler(participant)
             THEN << Event("write", participant, route_datagram(Head(msgs))) >>
             ELSE << >>) \o flush(Tail(msgs))

-----------------------------------------------------------------------------
(* realtime/stateserver.py: the State Server. A handler is a function from  *)
(* the record [ shards, objects, out ] to the same record; out is what the  *)
(* State Server has written to its connection, in order. Python's dicts     *)
(* are functions whose domain is the set of keys; a dict of small integers  *)
(* is iterated in ascending key order.                                      *)

EmptyDict == << >>

RECURSIVE SortedKeys(_)
SortedKeys(S) ==
    IF S = {} THEN << >>
    ELSE LET m == CHOOSE x \in S : \A y \in S : x <= y
         IN << m >> \o SortedKeys(S \ {m})

DictRemove(f, k) == [ x \in DOMAIN f \ {k} |-> f[x] ]

DictPut(f, k, v) == [ x \in DOMAIN f \cup {k} |-> IF x = k THEN v ELSE f[x] ]

\* list.remove(x): the first occurrence goes
RECURSIVE ListRemove(_, _)
ListRemove(l, x) ==
    IF l = << >> THEN << >>
    ELSE IF Head(l) = x THEN Tail(l)
    ELSE << Head(l) >> \o ListRemove(Tail(l), x)

InList(x, l) == \E i \in 1..Len(l) : l[i] = x

\* NetworkManager.get_avatar_id_from_connection_channel: the low bits of the
\* channel; the 32-bit object part of a channel is DoIdBits wide here
get_avatar_id_from_connection_channel(channel) == channel % (2 ^ DoIdBits)

\* the channel of a client that has chosen an avatar (LoadAvatarFSM.enterActivate)
AccountChannel(account_id, avatar_id) == account_id * (2 ^ DoIdBits) + avatar_id

\* NetworkConnector.handle_send_connection_datagram
Send(s, datagram) == [ s EXCEPT !.out = Append(@, datagram) ]

\* NetworkConnector.register_for_channel
NetworkConnector_register_for_channel(s, channel) ==
    Send(s, ControlDatagram(channel, CONTROL_SET_CHANNEL, << >>))

has_shard(s, channel) == channel \in DOMAIN s.shards

get_object(s, do_id) == IF do_id \in DOMAIN s.objects THEN s.objects[do_id] ELSE None

StateObject(ai_channel, do_id, parent_id, zone_id, dc_id, has_other) ==
    [ do_id |-> do_id,
      old_ai_channel |-> 0, ai_channel |-> ai_channel,
      old_owner_id |-> 0, owner_id |-> 0,
      old_parent_id |-> 0, parent_id |-> parent_id,
      old_zone_id |-> 0, zone_id |-> zone_id,
      dc_id |-> dc_id, has_other |-> has_other,
      required_fields |-> EmptyDict, other_fields |-> EmptyDict,
      zone_objects |-> EmptyDict ]

\* the zone whose list holds the child, NoZone (None) if there is none
get_zone_from_child(self, child_do_id) ==
    LET zones == { z \in DOMAIN self.zone_objects : InList(child_do_id, self.zone_objects[z]) }
    IN IF zones = {} THEN NoZone ELSE SortedKeys(zones)[1]

has_child(self, child_do_id) == get_zone_from_child(self, child_do_id) # NoZone

add_child_in_zone(zone_objects, child_do_id, zone_id) ==
    DictPut(zone_objects, zone_id,
            Append(IF zone_id \in DOMAIN zone_objects THEN zone_objects[zone_id] ELSE << >>,
                   child_do_id))

remove_child_from_zone(zone_objects, child_do_id, zone_id) ==
    LET left == ListRemove(zone_objects[zone_id], child_do_id)
    IN IF left = << >> THEN DictRemove(zone_objects, zone_id)
       ELSE DictPut(zone_objects, zone_id, left)

\* the ids of the objects of a zone that are still objects of the State Server
get_zone_objects(s, self, zone_id) ==
    IF zone_id \notin DOMAIN self.zone_objects THEN << >>
    ELSE SelectSeq(self.zone_objects[zone_id], LAMBDA d : d \in DOMAIN s.objects)

RECURSIVE get_zones_objects(_, _, _)
get_zones_objects(s, self, zone_ids) ==
    IF zone_ids = << >> THEN << >>
    ELSE get_zone_objects(s, self, Head(zone_ids)) \o get_zones_objects(s, self, Tail(zone_ids))

get_all_zone_objects(s, self) ==
    get_zones_objects(s, self, SortedKeys(DOMAIN self.zone_objects))

\* the stored values of the fields in keys, in that order
RECURSIVE PackFields(_, _, _)
PackFields(fields, keys, numbered) ==
    IF keys = << >> THEN << >>
    ELSE (IF numbered THEN << Head(keys) >> ELSE << >>) \o fields[Head(keys)]
             \o PackFields(fields, Tail(keys), numbered)

append_required_data(self, broadcast_only) ==
    PackFields(self.required_fields,
               SelectSeq(SortedKeys(DOMAIN self.required_fields),
                         LAMBDA f : ~broadcast_only \/ DCFields[f].broadcast),
               FALSE)

append_other_data(self) ==
    << Cardinality(DOMAIN self.other_fields) >>
        \o PackFields(self.other_fields, SortedKeys(DOMAIN self.other_fields), TRUE)

EntryPayload(self, broadcast_only) ==
    << self.do_id, self.parent_id, self.zone_id, self.dc_id >>
        \o append_required_data(self, broadcast_only)
        \o (IF self.has_other THEN append_other_data(self) ELSE << >>)

\* the payload of a datagram the connector hands to handle_datagram, by position
Arg(dg, i) == dg[4 + i]

Rest(dg, i) == SubSeq(dg, 4 + i, Len(dg))

handle_send_changing_owner(s, self, channel, old_owner_id, new_owner_id) ==
    Send(s, RoutedDatagram(channel, self.do_id, STATESERVER_OBJECT_CHANGING_OWNER,
                           << self.do_id, new_owner_id, old_owner_id >>))

handle_send_owner_entry(s, self, channel) ==
    Send(s, RoutedDatagram(channel, self.do_id,
                           IF ~self.has_other
                           THEN STATESERVER_OBJECT_ENTER_OWNER_WITH_REQUIRED
                           ELSE STATESERVER_OBJECT_ENTER_OWNER_WITH_REQUIRED_OTHER,
                           EntryPayload(self, FALSE)))

handle_set_owner(s, do_id, sender, dg) ==
    LET new_owner_id == Arg(dg, 1)
        self == s.objects[do_id]
    IN IF new_owner_id = self.owner_id THEN s
       ELSE LET owned == [ self EXCEPT !.old_owner_id = self.owner_id, !.owner_id = new_owner_id ]
                s1 == [ s EXCEPT !.objects[do_id] = owned ]
            IN handle_send_changing_owner(
                   handle_send_owner_entry(s1, owned, owned.owner_id),
                   owned, owned.old_owner_id, owned.old_owner_id, owned.owner_id)

handle_send_changing_ai(s, self, channel) ==
    Send(s, RoutedDatagram(channel, self.do_id, STATESERVER_OBJECT_CHANGING_AI,
                           << self.do_id, self.old_ai_channel, self.ai_channel >>))

handle_send_ai_entry(s, self, ai_channel) ==
    Send(s, RoutedDatagram(ai_channel, self.do_id,
                           IF ~self.has_other
                           THEN STATESERVER_OBJECT_ENTER_AI_WITH_REQUIRED
                           ELSE STATESERVER_OBJECT_ENTER_AI_WITH_REQUIRED_OTHER,
                           EntryPayload(self, self.owner_id = 0)))

handle_send_changing_location(s, self, channel) ==
    Send(s, RoutedDatagram(channel, self.do_id, STATESERVER_OBJECT_CHANGING_LOCATION,
                           << self.do_id, self.parent_id, self.zone_id >>))

\* StateObjectManager.handle_changing_location
object_manager_handle_changing_location(s, state_object) ==
    LET s1 == IF state_object.old_parent_id # 0
              THEN handle_send_changing_location(s, state_object, state_object.old_parent_id)
              ELSE s
    IN IF state_object.parent_id # 0
       THEN handle_send_changing_location(s1, state_object, state_object.parent_id)
       ELSE s1

handle_set_ai(s, do_id, sender, dg) ==
    LET new_ai_channel == Arg(dg, 1)
        self == s.objects[do_id]
    IN IF new_ai_channel = self.ai_channel THEN s
       ELSE IF ~has_shard(s, new_ai_channel) THEN s
       ELSE LET moved == [ self EXCEPT !.old_ai_channel = self.ai_channel,
                                       !.ai_channel = new_ai_channel,
                                       !.old_parent_id = IF self.owner_id # 0 THEN self.parent_id ELSE @,
                                       !.parent_id = IF self.owner_id # 0
                                                     THEN s.shards[new_ai_channel].district_id ELSE @ ]
                s1 == [ s EXCEPT !.objects[do_id] = moved ]
            IN object_manager_handle_changing_location(
                   handle_send_changing_ai(
                       handle_send_ai_entry(s1, moved, moved.ai_channel),
                       moved, moved.old_ai_channel),
                   moved)

handle_set_zone(s, do_id, sender, dg) ==
    LET new_zone_id == Arg(dg, 1)
        self == s.objects[do_id]
        moved == [ self EXCEPT !.old_zone_id = self.zone_id, !.zone_id = new_zone_id ]
        s1 == [ s EXCEPT !.objects[do_id] = moved ]
    IN object_manager_handle_changing_location(
           handle_send_changing_location(s1, moved, moved.ai_channel), moved)

\* the entry addressed to the object's AI whoever it was meant for
handle_send_location_entry_to_ai(s, self, channel) ==
    Send(s, RoutedDatagram(self.ai_channel, self.do_id,
                           IF ~self.has_other
                           THEN STATESERVER_OBJECT_ENTER_LOCATION_WITH_REQUIRED
                           ELSE STATESERVER_OBJECT_ENTER_LOCATION_WITH_REQUIRED_OTHER,
                           EntryPayload(self, TRUE)))

handle_send_location_entry(s, self, channel) ==
    Send(s, RoutedDatagram(channel, self.do_id,
                           IF ~self.has_other
                           THEN STATESERVER_OBJECT_ENTER_LOCATION_WITH_REQUIRED
                           ELSE STATESERVER_OBJECT_ENTER_LOCATION_WITH_REQUIRED_OTHER,
                           EntryPayload(self, TRUE)))

handle_send_departure(s, self, channel) ==
    Send(s, RoutedDatagram(channel, self.do_id, STATESERVER_OBJECT_DELETE_RAM, << self.do_id >>))

handle_send_object_location_ack(s, self, channel) ==
    Send(s, RoutedDatagram(channel, self.do_id, STATESERVER_OBJECT_LOCATION_ACK,
                           << self.do_id, self.old_parent_id, self.old_zone_id,
                              self.parent_id, self.zone_id >>))

\* the loop of handle_changing_location over the owned objects of the parent
RECURSIVE changing_location_loop(_, _, _, _, _)
changing_location_loop(s, child_object, owned, send_location_departure, send_location_entry) ==
    IF owned = << >> THEN s
    ELSE LET owner_id == s.objects[Head(owned)].owner_id
             s1 == IF send_location_departure
                   THEN handle_send_changing_location(s, child_object, owner_id) ELSE s
             s2 == IF send_location_entry
                   THEN handle_send_location_entry(s1, child_object, owner_id) ELSE s1
         IN changing_location_loop(s2, child_object, Tail(owned),
                                   send_location_departure, send_location_entry)

\* the ACK that ends handle_changing_location
acknowledge_location(s, child_object) ==
    IF child_object.owner_id # 0
    THEN handle_send_object_location_ack(s, child_object, child_object.owner_id)
    ELSE s

\* StateObject.handle_changing_location, run by the parent self_id
handle_changing_location(s, self_id, child_do_id, new_parent_id, new_zone_id) ==
    IF child_do_id \notin DOMAIN s.objects THEN s
    ELSE LET self == s.objects[self_id]
             child_object == s.objects[child_do_id]
             known == has_child(self, child_do_id)
             child_zone_id == IF known THEN get_zone_from_child(self, child_do_id) ELSE 0
             leaves == known /\ new_parent_id # self_id
             moves == known /\ new_parent_id = self_id /\ new_zone_id # child_zone_id
             send_location_departure == leaves \/ moves
             send_location_entry == moves \/ ~known
             zone_objects ==
                 IF leaves THEN remove_child_from_zone(self.zone_objects, child_do_id, child_zone_id)
                 ELSE IF moves
                 THEN add_child_in_zone(
                          remove_child_from_zone(self.zone_objects, child_do_id, child_zone_id),
                          child_do_id, new_zone_id)
                 ELSE IF ~known THEN add_child_in_zone(self.zone_objects, child_do_id, new_zone_id)
                 ELSE self.zone_objects
             s1 == [ s EXCEPT !.objects[self_id].zone_objects = zone_objects ]
             owned == SelectSeq(get_all_zone_objects(s1, s1.objects[self_id]),
                                LAMBDA d : s1.objects[d].owner_id > 0)
         IN acknowledge_location(
                changing_location_loop(s1, child_object, owned,
                                       send_location_departure, send_location_entry),
                child_object)

\* handle_set_location passes its own new zone where the child's id belongs
handle_set_location(s, do_id, sender, dg) ==
    LET new_parent_id == Arg(dg, 1)
        new_zone_id == Arg(dg, 2)
        self == s.objects[do_id]
    IN IF new_parent_id = self.parent_id /\ new_zone_id = self.zone_id THEN s
       ELSE LET moved == [ self EXCEPT !.old_parent_id = self.parent_id, !.parent_id = new_parent_id,
                                       !.old_zone_id = self.zone_id, !.zone_id = new_zone_id ]
            IN handle_changing_location([ s EXCEPT !.objects[do_id] = moved ],
                                        do_id, moved.zone_id, new_parent_id, new_zone_id)

RECURSIVE send_location_entries(_, _, _)
send_location_entries(s, zone_objects, channel) ==
    IF zone_objects = << >> THEN s
    ELSE send_location_entries(handle_send_location_entry(s, s.objects[Head(zone_objects)], channel),
                               Tail(zone_objects), channel)

handle_get_zones_objects(s, do_id, sender, dg) ==
    LET zone_ids == SubSeq(dg, 6, 5 + Arg(dg, 1))
        self == s.objects[do_id]
    IN IF self.owner_id = 0 THEN s
       ELSE IF self.parent_id \notin DOMAIN s.objects THEN s
       ELSE LET parent_object == s.objects[self.parent_id]
                zone_objects ==
                    SelectSeq(get_zones_objects(s, parent_object, zone_ids),
                              LAMBDA d : d # do_id /\ s.objects[d].owner_id # self.owner_id)
                resp == RoutedDatagram(self.owner_id, do_id,
                                       STATESERVER_OBJECT_GET_ZONES_OBJECTS_RESP,
                                       << do_id, Len(zone_objects) >> \o zone_objects)
            IN send_location_entries(Send(s, resp), zone_objects, self.owner_id)

\* StateObject.handle_internal_datagram
handle_internal_datagram(s, do_id, sender, message_type, dg) ==
    CASE message_type = STATESERVER_OBJECT_SET_OWNER -> handle_set_owner(s, do_id, sender, dg)
      [] message_type = STATESERVER_OBJECT_SET_AI -> handle_set_ai(s, do_id, sender, dg)
      [] message_type = STATESERVER_OBJECT_SET_ZONE -> handle_set_zone(s, do_id, sender, dg)
      [] message_type = STATESERVER_OBJECT_CHANGING_LOCATION ->
             handle_changing_location(s, do_id, Arg(dg, 1), Arg(dg, 2), Arg(dg, 3))
      [] message_type = STATESERVER_OBJECT_SET_LOCATION -> handle_set_location(s, do_id, sender, dg)
      [] message_type = STATESERVER_OBJECT_GET_ZONES_OBJECTS ->
             handle_get_zones_objects(s, do_id, sender, dg)
      [] OTHER -> s

\* the field's arguments as packed: None for a field sent without arguments
handle_send_update_field(s, self, channel, sender, field, field_args) ==
    Send(s, RoutedDatagram(channel, sender, STATESERVER_OBJECT_UPDATE_FIELD,
                           << self.do_id, field >> \o field_args))

handle_send_save_field(s, self, field, field_args) ==
    Send(s, RoutedDatagram(DATABASE_CHANNEL, self.do_id, DBSERVER_OBJECT_SET_FIELD,
                           << self.do_id, field >> \o field_args))

RECURSIVE updating_field_loop(_, _, _, _, _)
updating_field_loop(s, state_object, receivers, field, field_args) ==
    IF receivers = << >> THEN s
    ELSE updating_field_loop(
             handle_send_update_field(s, state_object, s.objects[Head(receivers)].owner_id,
                                      state_object.do_id, field, field_args),
             state_object, Tail(receivers), field, field_args)

\* StateObjectManager.handle_updating_field
handle_updating_field(s, state_object, sender, field, field_args, excludes) ==
    IF state_object.parent_id = 0 THEN s
    ELSE IF state_object.parent_id \notin DOMAIN s.objects THEN s
    ELSE LET parent_object == s.objects[state_object.parent_id]
         IN IF ~has_child(parent_object, state_object.do_id) THEN s
            ELSE updating_field_loop(
                     s, state_object,
                     SelectSeq(get_all_zone_objects(s, parent_object),
                               LAMBDA d : s.objects[d].owner_id > 0 /\ d \notin excludes),
                     field, field_args)

\* the gate of the client path of handle_update_field: the flags decide
client_can_send_ungated(field, sender, owner_id) == TRUE

client_can_send(field, sender, owner_id) ==
    IF DCFields[field].ownsend THEN sender = owner_id ELSE DCFields[field].clsend

\* the field stored by an update that carried arguments
StoreField(self, field, field_args) ==
    IF DCFields[field].required
    THEN [ self EXCEPT !.required_fields = DictPut(@, field, field_args) ]
    ELSE [ self EXCEPT !.other_fields = DictPut(@, field, field_args) ]

\* StateObject.handle_update_field; dg is the UPDATE_FIELD datagram, whose
\* payload is the object's id, the field's number and the packed arguments
handle_update_field(s, do_id, channel, sender, dg) ==
    LET field == Arg(dg, 2)
        field_args == Rest(dg, 3)
        has_args == field_args # << >>
        self == s.objects[do_id]
    IN IF field \notin DOMAIN DCFields THEN s
       ELSE IF ~has_shard(s, sender)
       THEN LET avatar_id == get_avatar_id_from_connection_channel(sender)
            IN IF avatar_id = 0 THEN s
               ELSE IF ~client_can_send(field, sender, self.owner_id) THEN s
               ELSE LET s1 == handle_send_update_field(s, self, self.ai_channel, sender,
                                                       field, field_args)
                        s2 == IF DCFields[field].broadcast
                              THEN handle_updating_field(s1, self, sender, field, field_args,
                                                         { avatar_id })
                              ELSE s1
                    IN IF has_args /\ DCFields[field].ram /\ self.has_other
                       THEN [ s2 EXCEPT !.objects[do_id] = StoreField(self, field, field_args) ]
                       ELSE s2
       ELSE LET s1 == handle_send_update_field(s, self, self.owner_id, self.ai_channel,
                                               field, field_args)
                s2 == IF DCFields[field].broadcast
                      THEN handle_updating_field(s1, self, self.parent_id, field, field_args,
                                                 { do_id })
                      ELSE s1
                s3 == IF has_args /\ DCFields[field].ram
                      THEN [ s2 EXCEPT !.objects[do_id] =
                                 [ StoreField(self, field, field_args) EXCEPT !.has_other = TRUE ] ]
                      ELSE s2
            IN IF has_args /\ DCFields[field].db
               THEN handle_send_save_field(s3, self, field, field_args)
               ELSE s3

\* StateObject.destroy, then the del of StateObjectManager.remove_object
remove_object(s, do_id) ==
    LET self == s.objects[do_id]
        gone == [ self EXCEPT !.old_owner_id = self.owner_id, !.owner_id = 0,
                              !.old_parent_id = self.parent_id, !.parent_id = 0,
                              !.old_zone_id = self.zone_id, !.zone_id = 0 ]
        s1 == handle_send_departure([ s EXCEPT !.objects[do_id] = gone ], gone, gone.ai_channel)
        s2 == IF gone.old_parent_id \in DOMAIN s1.objects
              THEN handle_changing_location(s1, gone.old_parent_id, do_id,
                                            gone.parent_id, gone.zone_id)
              ELSE s1
    IN [ s2 EXCEPT !.objects = DictRemove(@, do_id) ]

\* the required fields of a generate, as StateObject.__init__ unpacks them:
\* one value for each required field of the class, in the order of the fields
RECURSIVE UnpackRequired(_, _)
UnpackRequired(keys, data) ==
    IF keys = << >> THEN EmptyDict
    ELSE DictPut(UnpackRequired(Tail(keys), Tail(data)), Head(keys), << Head(data) >>)

RequiredFieldsOf == SelectSeq(SortedKeys(DOMAIN DCFields), LAMBDA f : DCFields[f].required)

\* a generate that replaces the object that has the id
handle_generate_overwrite(s, sender, has_other, dg) ==
    LET do_id == Arg(dg, 1)
        state_object ==
            [ StateObject(sender, do_id, Arg(dg, 2), Arg(dg, 3), Arg(dg, 4), has_other)
                EXCEPT !.required_fields = UnpackRequired(RequiredFieldsOf, Rest(dg, 5)) ]
    IN IF Arg(dg, 4) \notin DCClasses THEN s
       ELSE object_manager_handle_changing_location(
                [ NetworkConnector_register_for_channel(s, do_id)
                    EXCEPT !.objects = DictPut(@, do_id, state_object) ], state_object)

\* StateServer.handle_generate: the new object registers its channel and
\* announces its location
handle_generate(s, sender, has_other, dg) ==
    LET do_id == Arg(dg, 1)
        parent_id == Arg(dg, 2)
        zone_id == Arg(dg, 3)
        dc_id == Arg(dg, 4)
    IN IF do_id \in DOMAIN s.objects THEN s
       ELSE IF dc_id \notin DCClasses THEN s
       ELSE LET state_object ==
                    [ StateObject(sender, do_id, parent_id, zone_id, dc_id, has_other)
                        EXCEPT !.required_fields = UnpackRequired(RequiredFieldsOf, Rest(dg, 5)) ]
                s1 == NetworkConnector_register_for_channel(s, do_id)
            IN object_manager_handle_changing_location(
                   [ s1 EXCEPT !.objects = DictPut(@, do_id, state_object) ], state_object)

handle_get_shard_list(s, sender) ==
    Send(s, RoutedDatagram(sender, STATESERVER_CHANNEL, STATESERVER_GET_SHARD_ALL_RESP,
                           << Cardinality(DOMAIN s.shards) >> \o SortedKeys(DOMAIN s.shards)))

RECURSIVE send_update_shard_loop(_, _, _, _)
send_update_shard_loop(s, ids, shard_channel, only_children) ==
    IF ids = << >> THEN s
    ELSE LET state_object == s.objects[Head(ids)]
         IN send_update_shard_loop(
                IF state_object.owner_id = 0
                   \/ (state_object.ai_channel # shard_channel /\ only_children)
                THEN s
                ELSE handle_get_shard_list(s, state_object.owner_id),
                Tail(ids), shard_channel, only_children)

handle_send_update_shard(s, shard_channel, only_children) ==
    send_update_shard_loop(s, SortedKeys(DOMAIN s.objects), shard_channel, only_children)

\* ShardManager.add_shard and the notice to every owner; the payload is the
\* district's id (the name and the population are not modelled)
handle_add_shard(s, sender, dg) ==
    handle_send_update_shard(
        [ s EXCEPT !.shards = DictPut(@, sender, [ channel |-> sender, district_id |-> Arg(dg, 1) ]) ],
        sender, FALSE)

handle_update_shard(s, sender, dg) ==
    IF ~has_shard(s, sender) THEN s ELSE handle_send_update_shard(s, sender, TRUE)

handle_send_disconnect(s, channel, shard_channel) ==
    Send(s, RoutedDatagram(channel, STATESERVER_CHANNEL, CLIENTAGENT_DISCONNECT,
                           << CLIENT_DISCONNECT_SHARD_CLOSED, shard_channel >>))

\* the loop of handle_delete_shard_objects over a copy of the objects
RECURSIVE delete_shard_objects_loop(_, _, _)
delete_shard_objects_loop(s, ids, shard_channel) ==
    IF ids = << >> THEN s
    ELSE LET state_object == s.objects[Head(ids)]
         IN delete_shard_objects_loop(
                IF Head(ids) \notin DOMAIN s.objects THEN s
                ELSE IF state_object.owner_id = 0 \/ state_object.ai_channel # shard_channel THEN s
                ELSE remove_object(handle_send_disconnect(s, state_object.owner_id, shard_channel),
                                   Head(ids)),
                Tail(ids), shard_channel)

handle_remove_shard(s, sender) ==
    IF ~has_shard(s, sender) THEN s
    ELSE [ handle_send_update_shard(
               delete_shard_objects_loop(s, SortedKeys(DOMAIN s.objects), sender),
               sender, FALSE)
             EXCEPT !.shards = DictRemove(@, sender) ]

handle_object_update_field(s, channel, sender, dg) ==
    LET do_id == Arg(dg, 1)
    IN IF Len(dg) < 6 THEN s
       ELSE IF do_id \notin DOMAIN s.objects THEN s
       ELSE handle_update_field(s, do_id, channel, sender, dg)

handle_delete_object(s, sender, dg) ==
    LET do_id == Arg(dg, 1)
    IN IF do_id \notin DOMAIN s.objects THEN s ELSE remove_object(s, do_id)

handle_object_datagram(s, channel, sender, message_type, dg) ==
    IF channel \notin DOMAIN s.objects THEN s
    ELSE handle_internal_datagram(s, channel, sender, message_type, dg)

\* StateServer.handle_datagram, on the datagram the connector read
StateServer_handle_datagram(s, dg) ==
    LET channel == dg[2]
        sender == dg[3]
        message_type == dg[4]
    IN CASE message_type = STATESERVER_ADD_SHARD -> handle_add_shard(s, sender, dg)
         [] message_type = STATESERVER_UPDATE_SHARD -> handle_update_shard(s, sender, dg)
         [] message_type = STATESERVER_REMOVE_SHARD -> handle_remove_shard(s, sender)
         [] message_type = STATESERVER_GET_SHARD_ALL -> handle_get_shard_list(s, sender)
         [] message_type = STATESERVER_OBJECT_GENERATE_WITH_REQUIRED ->
                handle_generate(s, sender, FALSE, dg)
         [] message_type = STATESERVER_OBJECT_GENERATE_WITH_REQUIRED_OTHER ->
                handle_generate(s, sender, TRUE, dg)
         [] message_type = STATESERVER_OBJECT_UPDATE_FIELD ->
                handle_object_update_field(s, channel, sender, dg)
         [] message_type = STATESERVER_OBJECT_DELETE_RAM -> handle_delete_object(s, sender, dg)
         [] OTHER -> handle_object_datagram(s, channel, sender, message_type, dg)

-----------------------------------------------------------------------------
(* realtime/clientagent.py: the Client Agent. A handler is a function from  *)
(* the record [ clients, channel2handlers, out, sent ] to the same record:  *)
(* out is what the agent has written to the Message Director, sent is what  *)
(* it has written to its clients, both in order. The agent writes upstream  *)
(* through its connector (NetworkConnector.handle_send_connection_datagram).*)
(* game/ZoneUtil.py is not among the sources: the three functions of it the  *)
(* agent calls are modelled from the description of the world topology.     *)

\* NetworkHandler.handle_send_datagram of the client's connection
\* (NetworkListener.handle_send_datagram writes only to a connection in _handlers)
ToClient(a, c, message) ==
    IF a.clients[c].connected
    THEN [ a EXCEPT !.sent = Append(@, [ client |-> c, message |-> message ]) ]
    ELSE a

\* NetworkHandler.register_for_channel of a client of the agent
Client_register_for_channel(a, c, channel) ==
    add_channel_to_handler(Send(a, ControlDatagram(channel, CONTROL_SET_CHANNEL, << >>)), channel, c)

Client_unregister_for_channel(a, c, channel) ==
    remove_channel_to_handler(Send(a, ControlDatagram(channel, CONTROL_REMOVE_CHANNEL, << >>)),
                              channel)

handle_set_channel_id(a, c, channel) ==
    LET self == a.clients[c]
    IN IF channel = self.channel THEN a
       ELSE LET a1 == Client_register_for_channel(a, c, channel)
                a2 == IF self.old_channel # 0 /\ self.old_channel # self.allocated_channel
                      THEN Client_unregister_for_channel(a1, c, self.old_channel) ELSE a1
            IN [ a2 EXCEPT !.clients[c].channel = channel ]

get_puppet_connection_channel(doId) == doId + PuppetPrefix * (2 ^ DoIdBits)

get_account_connection_channel(doId) == doId + AccountPrefix * (2 ^ DoIdBits)

get_account_id_from_channel_code(channel) == channel \div (2 ^ DoIdBits)

\* Client.__init__ and NetworkHandler.setup: a fresh client on allocated channel
NewClient(allocated) ==
    [ channel |-> allocated, old_channel |-> 0, allocated_channel |-> allocated,
      authenticated |-> FALSE, connected |-> TRUE, activating |-> 0,
      interest_zones |-> << OTP_ZONE_ID_OLD_QUIET_ZONE >>,
      location_cb |-> "none", generate_cb |-> << >>, interest_timeout_task |-> FALSE,
      in_street_branch |-> FALSE, branch_zone |-> 0, branch_interest_zones |-> << >>,
      seen_objects |-> EmptyDict, owned_objects |-> << >>, pending_objects |-> << >> ]

\* LoadAccountFSM.enterSetAccount: the login has succeeded
enterSetAccount(a, c, account_id) ==
    handle_set_channel_id(
        Client_register_for_channel([ a EXCEPT !.clients[c].authenticated = TRUE ], c,
                                    get_account_connection_channel(account_id)),
        c, account_id * (2 ^ DoIdBits))

\* LoadAvatarFSM.enterActivate: the avatar is generated at parent 0, zone 0,
\* its required fields as the database returned them and no OTHER field
enterActivate(a, c, avatar_id) ==
    LET account_id == get_account_id_from_channel_code(a.clients[c].channel)
        channel == AccountChannel(account_id, avatar_id)
        a1 == handle_set_channel_id(
                  Client_register_for_channel(a, c, get_puppet_connection_channel(avatar_id)),
                  c, channel)
    IN [ Send(a1, RoutedDatagram(STATESERVER_CHANNEL, channel,
                                 STATESERVER_OBJECT_GENERATE_WITH_REQUIRED_OTHER,
                                 << avatar_id, 0, 0, DistributedToon >>
                                     \o [ i \in 1..Len(RequiredFieldsOf) |-> 0 ] \o << 0 >>))
           EXCEPT !.clients[c].activating = avatar_id ]

\* LoadAvatarFSM._handle_activate_avatar, 0.2 s later
handle_activate_avatar(a, c) ==
    LET self == a.clients[c]
        avatar_id == self.activating
        post_remove == RoutedDatagram(avatar_id, self.channel, STATESERVER_OBJECT_DELETE_RAM,
                                      << avatar_id >>)
        a1 == Send(a, ControlDatagram(self.allocated_channel, CONTROL_ADD_POST_REMOVE, post_remove))
    IN [ Send(a1, RoutedDatagram(avatar_id, self.channel, STATESERVER_OBJECT_SET_OWNER,
                                 << self.channel >>))
           EXCEPT !.clients[c].activating = 0 ]

Client_handle_set_shard(a, c, shard_id) ==
    LET self == a.clients[c]
        avatar_id == get_avatar_id_from_connection_channel(self.channel)
    IN Send([ a EXCEPT !.clients[c].location_cb = "shard" ],
            RoutedDatagram(avatar_id, self.channel, STATESERVER_OBJECT_SET_AI, << shard_id >>))

Client_handle_set_zone(a, c, zone_id) ==
    LET self == a.clients[c]
        avatar_id == get_avatar_id_from_connection_channel(self.channel)
    IN Send([ a EXCEPT !.clients[c].location_cb = "zone" ],
            RoutedDatagram(avatar_id, self.channel, STATESERVER_OBJECT_SET_ZONE, << zone_id >>))

Client_handle_object_update_field(a, c, do_id, field_id, field_args) ==
    Send(a, RoutedDatagram(do_id, a.clients[c].channel, STATESERVER_OBJECT_UPDATE_FIELD,
                           << do_id, field_id >> \o field_args))

send_get_zones_objects(a, c, avatar_id, interest_zones) ==
    Send(a, RoutedDatagram(avatar_id, a.clients[c].channel, STATESERVER_OBJECT_GET_ZONES_OBJECTS,
                           << Len(interest_zones) >> \o interest_zones))

has_interest_zone(self, zone_id) == InList(zone_id, self.interest_zones)

add_interest_zone(interest_zones, zone_id) ==
    IF InList(zone_id, interest_zones) THEN interest_zones ELSE Append(interest_zones, zone_id)

remove_interest_zone(interest_zones, zone_id) ==
    IF ~InList(zone_id, interest_zones) THEN interest_zones
    ELSE IF zone_id = OTP_ZONE_ID_OLD_QUIET_ZONE THEN interest_zones
    ELSE ListRemove(interest_zones, zone_id)

has_seen_object(self, do_id) ==
    \E zone_id \in DOMAIN self.seen_objects : InList(do_id, self.seen_objects[zone_id])

\* the first zone, in the order of the dict, whose list holds the object
get_seen_object_zone(self, do_id) ==
    LET zones == { z \in DOMAIN self.seen_objects : InList(do_id, self.seen_objects[z]) }
    IN IF zones = {} THEN NoZone ELSE SortedKeys(zones)[1]

\* remove_seen_object visits every zone: the object leaves each list that
\* holds it, and every list that is empty afterwards is deleted
remove_seen_object(seen_objects, do_id) ==
    LET left == [ z \in DOMAIN seen_objects |-> ListRemove(seen_objects[z], do_id) ]
    IN [ z \in { y \in DOMAIN left : left[y] # << >> } |-> left[z] ]

send_client_object_delete_resp(a, c, do_id) ==
    [ ToClient(a, c, << CLIENT_OBJECT_DELETE_RESP, do_id >>)
        EXCEPT !.clients[c].seen_objects = remove_seen_object(@, do_id) ]

send_client_done_set_zone_resp(a, c, zone_id) ==
    ToClient(a, c, << CLIENT_DONE_SET_ZONE_RESP, zone_id >>)

send_client_get_state_resp(a, c, zone_id) ==
    ToClient(a, c, << CLIENT_GET_STATE_RESP, zone_id >>)

handle_send_quiet_zone_resp(a, c, old_zone_id, new_zone_id) ==
    LET a1 == IF old_zone_id = 0 THEN send_client_done_set_zone_resp(a, c, new_zone_id)
              ELSE send_client_get_state_resp(a, c, new_zone_id)
    IN IF old_zone_id # 0 /\ new_zone_id # OTP_ZONE_ID_OLD_QUIET_ZONE
       THEN send_client_done_set_zone_resp(a1, c, new_zone_id) ELSE a1

handle_send_zone_resp(a, c, complete, old_zone_id, new_zone_id) ==
    LET a1 == IF complete THEN a
              ELSE IF old_zone_id = 0 THEN send_client_done_set_zone_resp(a, c, new_zone_id)
              ELSE send_client_get_state_resp(a, c, new_zone_id)
    IN IF old_zone_id # 0 /\ new_zone_id # OTP_ZONE_ID_OLD_QUIET_ZONE /\ complete
       THEN send_client_done_set_zone_resp(a1, c, new_zone_id) ELSE a1

\* cb is the stored tuple << old_parent_id, old_zone_id, new_parent_id, new_zone_id >>
handle_set_zone_complete_callback(a, c, complete, cb) ==
    IF cb[4] = OTP_ZONE_ID_OLD_QUIET_ZONE
    THEN IF ~complete THEN a ELSE handle_send_quiet_zone_resp(a, c, cb[2], cb[4])
    ELSE handle_send_zone_resp(a, c, complete, cb[2], cb[4])

handle_interest_done(a, c) ==
    LET self == a.clients[c]
        a1 == IF self.generate_cb # << >>
              THEN handle_set_zone_complete_callback(a, c, TRUE, self.generate_cb) ELSE a
    IN [ a1 EXCEPT !.clients[c].interest_timeout_task = FALSE,
                   !.clients[c].generate_cb = << >>,
                   !.clients[c].pending_objects = << >> ]

\* Client._handle_interest_timeout: the task forces the completion
handle_interest_timeout(a, c) == handle_interest_done(a, c)

\* the loop "for do_id in seen_objects" of handle_set_zone_callback: the list
\* is the one send_client_object_delete_resp removes from, so after a removal
\* the next index names the element after the one that moved into its place
RECURSIVE delete_seen_loop(_, _, _, _)
delete_seen_loop(a, c, seen_objects, i) ==
    IF i > Len(seen_objects) THEN a
    ELSE IF InList(seen_objects[i], a.clients[c].owned_objects)
    THEN delete_seen_loop(a, c, seen_objects, i + 1)
    ELSE delete_seen_loop(send_client_object_delete_resp(a, c, seen_objects[i]), c,
                          ListRemove(seen_objects, seen_objects[i]), i + 1)

\* ZoneUtil.getBranchZone: the zone of a branch, its within-branch digits discarded
ZoneUtil_getBranchZone(zone_id) == zone_id - (zone_id % BranchSize)

\* ZoneUtil.isPlayground: the first zone of a hood
ZoneUtil_isPlayground(zone_id) == zone_id % HoodSize = 0

\* ZoneUtil.getWhereName(zone_id, True): a zone of a hood's first branch is of
\* its playground, a zone of a later branch is of a street
ZoneUtil_getWhereName(zone_id) ==
    IF ZoneUtil_getBranchZone(zone_id) % HoodSize = 0 THEN "playground" ELSE "street"

get_in_street_branch(zone_id) ==
    IF ~ZoneUtil_isPlayground(zone_id) THEN ZoneUtil_getWhereName(zone_id) = "street" ELSE FALSE

\* the loop "for zone_id in self._branch_interest_zones" on leaving a branch
RECURSIVE leave_branch_loop(_, _)
leave_branch_loop(self, zones) ==
    IF zones = << >> THEN self
    ELSE leave_branch_loop([ self EXCEPT !.seen_objects = DictRemove(@, Head(zones)),
                                         !.interest_zones = remove_interest_zone(@, Head(zones)) ],
                           Tail(zones))

\* the loop "for zone_id in xrange(branch_zone + 1, branch_zone + 50)" on entering one
RECURSIVE enter_branch_loop(_, _)
enter_branch_loop(self, zone_id) ==
    IF zone_id >= self.branch_zone + BRANCH_INTEREST_END THEN self
    ELSE enter_branch_loop([ self EXCEPT !.branch_interest_zones = Append(@, zone_id),
                                         !.interest_zones = add_interest_zone(@, zone_id) ],
                           zone_id + 1)

handle_set_zone_callback(a, c, do_id, old_parent_id, old_zone_id, new_parent_id, new_zone_id) ==
    LET self == a.clients[c]
        avatar_id == get_avatar_id_from_connection_channel(self.channel)
        street == get_in_street_branch(new_zone_id)
        left == IF self.in_street_branch
                THEN [ leave_branch_loop(
                           [ self EXCEPT !.interest_zones = remove_interest_zone(@, self.branch_zone),
                                         !.branch_zone = 0 ],
                           self.branch_interest_zones)
                         EXCEPT !.branch_interest_zones = << >>, !.in_street_branch = FALSE ]
                ELSE self
        entered == [ enter_branch_loop(
                         [ self EXCEPT !.branch_zone = ZoneUtil_getBranchZone(new_zone_id),
                                       !.interest_zones =
                                           add_interest_zone(@, ZoneUtil_getBranchZone(new_zone_id)) ],
                         ZoneUtil_getBranchZone(new_zone_id) + 1)
                       EXCEPT !.in_street_branch = TRUE ]
        updated == IF ~street
                   THEN [ left EXCEPT !.interest_zones = remove_interest_zone(@, old_zone_id) ]
                   ELSE entered
        zones1 == add_interest_zone(updated.interest_zones, new_zone_id)
        interest_zones == IF new_zone_id # OTP_ZONE_ID_OLD_QUIET_ZONE
                          THEN add_interest_zone(zones1, OTP_ZONE_ID_OLD_QUIET_ZONE) ELSE zones1
        a1 == [ a EXCEPT !.clients[c] = [ updated EXCEPT !.location_cb = "none",
                                                         !.interest_zones = interest_zones ] ]
        a2 == IF old_zone_id \in DOMAIN a1.clients[c].seen_objects /\ old_zone_id # new_zone_id
              THEN LET deleted == delete_seen_loop(a1, c, a1.clients[c].seen_objects[old_zone_id], 1)
                   IN [ deleted EXCEPT !.clients[c].seen_objects = DictRemove(@, old_zone_id) ]
              ELSE a1
    IN IF street /\ self.in_street_branch
       THEN send_get_zones_objects([ a EXCEPT !.clients[c].location_cb = "none" ], c, avatar_id,
                                   ListRemove(self.interest_zones, self.branch_zone))
       ELSE send_get_zones_objects(
                [ a2 EXCEPT !.clients[c].generate_cb =
                                << old_parent_id, old_zone_id, new_parent_id, new_zone_id >> ],
                c, avatar_id, a2.clients[c].interest_zones)

handle_set_shard_callback(a, c) == ToClient(a, c, << CLIENT_GET_STATE_RESP >>)

handle_object_location_ack(a, c, dg) ==
    LET location_cb == a.clients[c].location_cb
    IN CASE location_cb = "shard" -> handle_set_shard_callback(a, c)
         [] location_cb = "zone" ->
                handle_set_zone_callback(a, c, Arg(dg, 1), Arg(dg, 2), Arg(dg, 3), Arg(dg, 4),
                                         Arg(dg, 5))
         [] OTHER -> a

RECURSIVE pending_loop(_, _, _)
pending_loop(self, pending_objects, do_ids) ==
    IF do_ids = << >> THEN pending_objects
    ELSE pending_loop(self,
                      IF has_seen_object(self, Head(do_ids)) \/ InList(Head(do_ids), self.owned_objects)
                      THEN pending_objects ELSE Append(pending_objects, Head(do_ids)),
                      Tail(do_ids))

handle_object_get_zones_objects_resp(a, c, dg) ==
    LET self == a.clients[c]
        num_objects == Arg(dg, 2)
        a1 == [ a EXCEPT !.clients[c].pending_objects =
                             pending_loop(self, @, SubSeq(dg, 7, 6 + num_objects)) ]
        a2 == IF self.generate_cb # << >>
              THEN handle_set_zone_complete_callback(a1, c, FALSE, self.generate_cb) ELSE a1
    IN IF num_objects = 0 THEN handle_interest_done(a2, c)
       ELSE [ a2 EXCEPT !.clients[c].interest_timeout_task = TRUE ]

handle_object_enter_owner(a, c, has_other, dg) ==
    [ ToClient(a, c, << CLIENT_GET_AVATAR_DETAILS_RESP, Arg(dg, 1), 0 >> \o Rest(dg, 5))
        EXCEPT !.clients[c].owned_objects = Append(@, Arg(dg, 1)) ]

\* the handler without its test for the client's interest in the zone
handle_object_enter_location_any_zone(a, c, has_other, dg) ==
    LET self == a.clients[c]
        do_id == Arg(dg, 1)
        zone_id == Arg(dg, 3)
        dc_id == Arg(dg, 4)
    IN IF has_seen_object(self, do_id) THEN a
       ELSE IF InList(do_id, self.owned_objects) THEN a
       ELSE IF dc_id = DistributedToon /\ zone_id = OTP_ZONE_ID_OLD_QUIET_ZONE THEN a
       ELSE LET a1 == ToClient(a, c, << IF ~has_other THEN CLIENT_CREATE_OBJECT_REQUIRED
                                         ELSE CLIENT_CREATE_OBJECT_REQUIRED_OTHER,
                                        dc_id, do_id >> \o Rest(dg, 5))
                a2 == [ a1 EXCEPT !.clients[c].seen_objects =
                            DictPut(@, zone_id,
                                    Append(IF zone_id \in DOMAIN @ THEN @[zone_id] ELSE << >>, do_id)) ]
            IN IF InList(do_id, self.pending_objects)
               THEN LET a3 == [ a2 EXCEPT !.clients[c].pending_objects = ListRemove(@, do_id) ]
                    IN IF a3.clients[c].pending_objects = << >>
                       THEN handle_interest_done(a3, c) ELSE a3
               ELSE a2

handle_object_enter_location(a, c, has_other, dg) ==
    LET self == a.clients[c]
        do_id == Arg(dg, 1)
        zone_id == Arg(dg, 3)
        dc_id == Arg(dg, 4)
    IN IF has_seen_object(self, do_id) THEN a
       ELSE IF InList(do_id, self.owned_objects) THEN a
       ELSE IF ~has_interest_zone(self, zone_id) THEN a
       ELSE IF dc_id = DistributedToon /\ zone_id = OTP_ZONE_ID_OLD_QUIET_ZONE THEN a
       ELSE LET a1 == ToClient(a, c, << IF ~has_other THEN CLIENT_CREATE_OBJECT_REQUIRED
                                         ELSE CLIENT_CREATE_OBJECT_REQUIRED_OTHER,
                                        dc_id, do_id >> \o Rest(dg, 5))
                a2 == [ a1 EXCEPT !.clients[c].seen_objects =
                            DictPut(@, zone_id,
                                    Append(IF zone_id \in DOMAIN @ THEN @[zone_id] ELSE << >>, do_id)) ]
            IN IF InList(do_id, self.pending_objects)
               THEN LET a3 == [ a2 EXCEPT !.clients[c].pending_objects = ListRemove(@, do_id) ]
                    IN IF a3.clients[c].pending_objects = << >>
                       THEN handle_interest_done(a3, c) ELSE a3
               ELSE a2

\* the handler without its test for the client's own objects
handle_object_changing_location_owned(a, c, dg) ==
    LET self == a.clients[c]
        do_id == Arg(dg, 1)
        new_zone_id == Arg(dg, 3)
    IN IF ~has_seen_object(self, do_id) THEN a
       ELSE IF has_interest_zone(self, new_zone_id) THEN a
       ELSE send_client_object_delete_resp(a, c, do_id)

handle_object_changing_location(a, c, dg) ==
    LET self == a.clients[c]
        do_id == Arg(dg, 1)
        new_zone_id == Arg(dg, 3)
    IN IF ~has_seen_object(self, do_id) THEN a
       ELSE IF InList(do_id, self.owned_objects) THEN a
       ELSE IF has_interest_zone(self, new_zone_id) THEN a
       ELSE send_client_object_delete_resp(a, c, do_id)

\* the test that asks only for the objects whose create the client was sent
can_send_update_seen(self, do_id) == has_seen_object(self, do_id)

\* the test of handle_object_update_field_resp
can_send_update_always(self, do_id) == TRUE

can_send_update(self, do_id) ==
    \/ has_seen_object(self, do_id)
    \/ InList(do_id, self.pending_objects)
    \/ InList(do_id, self.owned_objects)

handle_object_update_field_resp(a, c, dg) ==
    LET do_id == Arg(dg, 1)
        field_id == Arg(dg, 2)
    IN IF ~can_send_update(a.clients[c], do_id) THEN a
       ELSE ToClient(a, c, << CLIENT_OBJECT_UPDATE_FIELD_RESP, do_id, field_id >> \o Rest(dg, 3))

handle_object_delete_ram(a, c, dg) ==
    LET self == a.clients[c]
        do_id == Arg(dg, 1)
    IN IF ~has_seen_object(self, do_id) THEN a
       ELSE IF InList(do_id, self.owned_objects) THEN a
       ELSE IF get_seen_object_zone(self, do_id) = OTP_ZONE_ID_OLD_QUIET_ZONE THEN a
       ELSE send_client_object_delete_resp(a, c, do_id)

Client_handle_get_shard_list(a, c) ==
    Send(a, RoutedDatagram(STATESERVER_CHANNEL, a.clients[c].channel, STATESERVER_GET_SHARD_ALL,
                           << >>))

handle_get_shard_list_resp(a, c, dg) ==
    ToClient(a, c, << CLIENT_GET_SHARD_LIST_RESP >> \o Rest(dg, 1))

\* Client.shutdown: NetworkHandler.shutdown unregisters the old, the current
\* and the allocated channel, each if it is not zero
Client_shutdown(a, c) ==
    LET self == a.clients[c]
        a1 == IF self.old_channel # 0
              THEN Client_unregister_for_channel(a, c, self.old_channel) ELSE a
        a2 == IF self.channel # 0
              THEN Client_unregister_for_channel(a1, c, self.channel) ELSE a1
        a3 == IF self.allocated_channel # 0
              THEN Client_unregister_for_channel(a2, c, self.allocated_channel) ELSE a2
    IN [ a3 EXCEPT !.clients[c].old_channel = 0, !.clients[c].channel = 0,
                   !.clients[c].allocated_channel = 0, !.clients[c].connected = FALSE ]

\* handle_send_disconnect: the client is told to leave and its connection is
\* closed; the listener then removes the handler, which shuts it down
Client_handle_send_disconnect(a, c, code, reason) ==
    Client_shutdown(ToClient(a, c, << CLIENT_GO_GET_LOST, code, reason >>), c)

\* Client.handle_internal_datagram
Client_handle_internal_datagram(a, c, message_type, sender, dg) ==
    CASE message_type = CLIENTAGENT_DISCONNECT ->
             Client_handle_send_disconnect(a, c, Arg(dg, 1), Arg(dg, 2))
      [] message_type = STATESERVER_GET_SHARD_ALL_RESP -> handle_get_shard_list_resp(a, c, dg)
      [] message_type = STATESERVER_OBJECT_LOCATION_ACK -> handle_object_location_ack(a, c, dg)
      [] message_type = STATESERVER_OBJECT_GET_ZONES_OBJECTS_RESP ->
             handle_object_get_zones_objects_resp(a, c, dg)
      [] message_type = STATESERVER_OBJECT_ENTER_OWNER_WITH_REQUIRED ->
             handle_object_enter_owner(a, c, FALSE, dg)
      [] message_type = STATESERVER_OBJECT_ENTER_OWNER_WITH_REQUIRED_OTHER ->
             handle_object_enter_owner(a, c, TRUE, dg)
      [] message_type = STATESERVER_OBJECT_ENTER_LOCATION_WITH_REQUIRED ->
             handle_object_enter_location(a, c, FALSE, dg)
      [] message_type = STATESERVER_OBJECT_ENTER_LOCATION_WITH_REQUIRED_OTHER ->
             handle_object_enter_location(a, c, TRUE, dg)
      [] message_type = STATESERVER_OBJECT_CHANGING_LOCATION ->
             handle_object_changing_location(a, c, dg)
      [] message_type = STATESERVER_OBJECT_UPDATE_FIELD -> handle_object_update_field_resp(a, c, dg)
      [] message_type = STATESERVER_OBJECT_DELETE_RAM -> handle_object_delete_ram(a, c, dg)
      [] OTHER -> a

\* ClientAgent.handle_datagram: the handler registered for the channel, if any
ClientAgent_handle_datagram(a, dg) ==
    LET handler == a.channel2handlers[dg[2]]
    IN IF handler = None THEN a
       ELSE Client_handle_internal_datagram(a, handler, dg[4], dg[3], dg)

\* Client.handle_login for a play token the accounts database knows, with the
\* server's version and hash: LoadAccountFSM loads the account and sets it
handle_login(a, c, account_id) == enterSetAccount(a, c, account_id)

\* Client.handle_authenticated_datagram; args are the fields of the message
handle_authenticated_datagram(a, c, message_type, args) ==
    CASE message_type = CLIENT_GET_SHARD_LIST -> Client_handle_get_shard_list(a, c)
      [] message_type = CLIENT_SET_AVATAR -> enterActivate(a, c, args[1])
      [] message_type = CLIENT_REMOVE_FRIEND -> a
      [] message_type = CLIENT_SET_SHARD -> Client_handle_set_shard(a, c, args[1])
      [] message_type = CLIENT_SET_ZONE -> Client_handle_set_zone(a, c, args[1])
      [] message_type = CLIENT_OBJECT_UPDATE_FIELD ->
             Client_handle_object_update_field(a, c, args[1], args[2], SubSeq(args, 3, Len(args)))
      [] OTHER -> Client_handle_send_disconnect(a, c, CLIENT_DISCONNECT_INVALID_MSGTYPE,
                                                message_type)

\* every message handled whether the connection has logged in or not
Client_handle_datagram_ungated(a, c, message_type, args) ==
    CASE message_type = CLIENT_HEARTBEAT -> a
      [] message_type = CLIENT_LOGIN_2 -> handle_login(a, c, args[1])
      [] message_type = CLIENT_DISCONNECT -> Client_shutdown(a, c)
      [] OTHER -> handle_authenticated_datagram(a, c, message_type, args)

\* Client.handle_datagram, on a message of the client; CLIENT_DISCONNECT closes
\* the connection, and the listener shuts the handler down
Client_handle_datagram(a, c, message_type, args) ==
    CASE message_type = CLIENT_HEARTBEAT -> a
      [] message_type = CLIENT_LOGIN_2 -> handle_login(a, c, args[1])
      [] message_type = CLIENT_DISCONNECT -> Client_shutdown(a, c)
      [] OTHER ->
             IF ~a.clients[c].authenticated
             THEN Client_handle_send_disconnect(a, c, CLIENT_DISCONNECT_ANONYMOUS_VIOLATION,
                                                message_type)
             ELSE handle_authenticated_datagram(a, c, message_type, args)

\* the clients of the Client Agent, their accounts, avatars and the channels
\* the agent's allocator gives them
ClientIds == {1, 2}
AccountOf(c) == c
AvatarOf(c) == 2 + c
AllocatedChannel(c) == 6 + c
\* the shards (AI servers) by channel, and the district object each one owns
ShardChannels == {9, 10}
DistrictOf(shard) == shard - 8
\* an object of an AI server, generated into a district
AIObjects == {5}
\* the zones clients and objects move between: the quiet zone and playgrounds
Zones == {OTP_ZONE_ID_OLD_QUIET_ZONE, 2}
FieldArgs == {<< >>, << 7 >>}

\* the connections of the State Server and of the Client Agent to the
\* Message Director
SSConn == CHOOSE p \in Conns : \A q \in Conns : p <= q
CAConn == CHOOSE p \in Conns : p # SSConn

\* every channel a datagram of the cluster can name
ClusterChannels ==
    (1..(2 ^ DoIdBits - 1))
        \cup { AccountChannel(AccountOf(c), v) : c \in ClientIds, v \in {0} \cup { AvatarOf(d) : d \in ClientIds } }
        \cup { get_puppet_connection_channel(AvatarOf(c)) : c \in ClientIds }
        \cup { get_account_connection_channel(AccountOf(c)) : c \in ClientIds }

-----------------------------------------------------------------------------
(* The Database Server (realtime/database.py) and the interface its peers   *)
(* use to reach it (realtime/util.py).                                      *)

\* the object ids of the store: database-min-channels, 1000000000 in the
\* source, and the number of ids up to database-max-channels
min_id == 2
MaxIds == 2
max_id == min_id + MaxIds - 1

\* the contexts a requester numbers its requests with, the values a stored
\* field takes, and the operations that wait for one flush
MaxContext == 2
MaxValue == 2
MaxOperations == 1

Contexts == 1..MaxContext
Values == 1..MaxValue

\* the names of the files of the directory: '%d' of an id or of whatever
\* number a request carries where the server reads an id
Filenames == 1..(IF max_id > MaxContext THEN max_id ELSE MaxContext)

\* the classes of the dc file by number (a class's name is its number in the
\* model), their fields, and the one field with a default value: all of them
\* are "db" fields
DBClasses == { 1, 2 }
DBFields == { 1, 2 }
has_default_value(dc_class, field) == dc_class = 1 /\ field = 1
get_default_value == 1

\* the packed fields of a datagram: field number, value, field number, ...
RECURSIVE PackDBFields(_, _)
PackDBFields(fields, ids) ==
    IF ids = {} THEN << >>
    ELSE LET field == CHOOSE f \in ids : \A g \in ids : f <= g
         IN  (IF fields[field] = 0 THEN << >> ELSE << field, fields[field] >>)
                 \o PackDBFields(fields, ids \ {field})

\* a dict of fields: 0 where the dict has no such key
NoFields == [ field \in DBFields |-> 0 ]

CountFields(fields) == Cardinality({ field \in DBFields : fields[field] # 0 })

\* util.py, create_object: the request a peer sends to create an object
create_object(channel_id, ctx, dclass, fields) ==
    RoutedDatagram(DATABASE_CHANNEL, channel_id, DBSERVER_CREATE_OBJECT,
                   << ctx, dclass, CountFields(fields) >> \o PackDBFields(fields, DBFields))

\* util.py, query_object with no field names
query_object(channel_id, ctx, do_id) ==
    RoutedDatagram(DATABASE_CHANNEL, channel_id, DBSERVER_OBJECT_GET_ALL, << ctx, do_id >>)

\* util.py, update_object with one field: old_fields None (old = 0) sends
\* SET_FIELD, otherwise SET_FIELD_IF_EQUALS with the context first, then the
\* id, the field, its old value and its new one
update_object(channel_id, ctx, do_id, field, new, old) ==
    IF old = 0
    THEN RoutedDatagram(DATABASE_CHANNEL, channel_id, DBSERVER_OBJECT_SET_FIELD,
                        << do_id, field, new >>)
    ELSE RoutedDatagram(DATABASE_CHANNEL, channel_id, DBSERVER_OBJECT_SET_FIELD_IF_EQUALS,
                        << ctx, do_id, field, old, new >>)

\* a file of the directory: exists is os.path.exists, the rest the keys of
\* its dictionary (0 and NoFields where a key is missing)
NoFile == [ exists |-> FALSE, dclass |-> 0, do_id |-> 0, fields |-> NoFields ]

\* DatabaseFile.save of a file opened where none was: the empty dictionary
EmptyFile == [ NoFile EXCEPT !.exists = TRUE ]

\* DatabaseManager.has_file: the file is open, whether or not it is on disk
has_file(self, filename) == filename \in self.files

\* DatabaseManager.open_file, once has_file has been found false
open_file(self, filename) == [ self EXCEPT !.files = @ \cup {filename} ]

\* DatabaseManager.close_file
close_file(self, filename) == [ self EXCEPT !.files = @ \ {filename} ]

\* DatabaseFile.save
save(self, filename) ==
    IF self.disk[filename].exists THEN self
    ELSE [ self EXCEPT !.disk[filename] = EmptyFile ]

\* UniqueIdAllocator.allocate: the ids from the first to the last, in order;
\* 0, the value the caller tests for, once there is none left
allocate(self) == IF self.allocator <= max_id THEN self.allocator ELSE 0

\* the Database Server before setup, over an empty directory; created and
\* since are history: the ids the server has answered a CREATE_OBJECT with,
\* in order, and how many of them since it was last set up
NoDatabase ==
    [ running |-> FALSE, files |-> {}, allocator |-> 0, operations |-> << >>,
      disk |-> [ filename \in Filenames |-> NoFile ], next |-> 0,
      created |-> << >>, since |-> 0 ]

\* DatabaseInterface.setup that takes the first id whatever the tracker says
DatabaseInterface_setup_fresh(self) ==
    [ self EXCEPT !.running = TRUE, !.files = {}, !.operations = << >>,
                  !.next = IF self.next # 0 THEN self.next ELSE min_id,
                  !.allocator = min_id ]

\* DatabaseServer.setup, DatabaseInterface.setup: the tracker is opened and
\* 'next' is set to the first id unless the file has it; ids are handed out
\* from there
DatabaseInterface_setup(self) ==
    LET next == IF self.next # 0 THEN self.next ELSE min_id
    IN  [ self EXCEPT !.running = TRUE, !.files = {}, !.operations = << >>,
                      !.next = next, !.allocator = next ]

\* what an operation returns: the server, the datagrams it sent, and whether
\* it left by an exception
Done(self, out) == [ db |-> self, out |-> out, raised |-> FALSE ]
Raised(self) == [ db |-> self, out |-> << >>, raised |-> TRUE ]

\* DatabaseServer._create_object_callback
create_object_callback(self, sender, context, do_id) ==
    Done(self, << RoutedDatagram(sender, DATABASE_CHANNEL, DBSERVER_CREATE_OBJECT_RESP,
                                 << context, do_id >>) >>)

\* DatabaseServer._object_get_all_callback
object_get_all_callback(self, success, sender, context, dc_id, fields) ==
    Done(self, << RoutedDatagram(sender, DATABASE_CHANNEL, DBSERVER_OBJECT_GET_ALL_RESP,
                      IF success
                      THEN << context, 1, dc_id, CountFields(fields) >>
                               \o PackDBFields(fields, DBFields)
                      ELSE << context, 0 >>) >>)

\* DatabaseServer._object_set_field_if_equals_callback for a failure with no
\* field: with a field it reads self._dc_class, which the server never sets
object_set_field_if_equals_callback(self, sender, context) ==
    Done(self, << RoutedDatagram(sender, DATABASE_CHANNEL,
                                 DBSERVER_OBJECT_SET_FIELD_IF_EQUALS_RESP,
                                 << context, 0, 0 >>) >>)

\* the fields of a CREATE_OBJECT: those of the request, then the default of
\* every field that has one and was not given
CreateFields(dc_class, field_data) ==
    [ field \in DBFields |->
        IF \E i \in 1..(Len(field_data) \div 2) : field_data[2 * i - 1] = field
        THEN LET i == CHOOSE j \in 1..(Len(field_data) \div 2) : field_data[2 * j - 1] = field
             IN  field_data[2 * i]
        ELSE IF has_default_value(dc_class, field) THEN get_default_value ELSE 0 ]

\* DatabaseCreateFSM.enterStart. An unknown class is logged and the operation
\* goes on to dc_class.get_name() on None; both warnings format
\* self._dc_class, which this FSM never sets: all three raise.
DatabaseCreateFSM_enterStart(self, op) ==
    LET do_id == allocate(self)
        taken == [ self EXCEPT !.allocator = IF do_id # 0 THEN do_id + 1 ELSE @ ]
    IN  IF do_id = 0 THEN Raised(taken)
        ELSE IF has_file(taken, do_id) THEN Raised(taken)
        ELSE LET opened == save(open_file(taken, do_id), do_id)
             IN  IF op.dc_id \notin DBClasses THEN Raised(opened)
                 ELSE LET written ==
                              [ opened EXCEPT
                                  !.disk[do_id] = [ exists |-> TRUE, dclass |-> op.dc_id,
                                                    do_id |-> do_id,
                                                    fields |-> CreateFields(op.dc_id, op.field_data) ],
                                  !.next = do_id + 1,
                                  !.created = Append(@, do_id),
                                  !.since = @ + 1 ]
                      IN  create_object_callback(close_file(written, do_id),
                                                 op.sender, op.context, do_id)

\* DatabaseRetrieveFSM.enterStart. open_file raises for a file that is open;
\* get_value loads the file first, which raises where there is none; the
\* two failures after that return with the file still open.
DatabaseRetrieveFSM_enterStart(self, op) ==
    IF op.do_id = 0
    THEN object_get_all_callback(self, FALSE, op.sender, op.context, 0, NoFields)
    ELSE IF has_file(self, op.do_id) THEN Raised(self)
    ELSE LET opened == open_file(self, op.do_id)
             file == self.disk[op.do_id]
         IN  IF ~file.exists THEN Raised(opened)
             ELSE IF file.dclass \notin DBClasses
             THEN object_get_all_callback(opened, FALSE, op.sender, op.context, 0, NoFields)
             ELSE IF file.fields = NoFields
             THEN object_get_all_callback(opened, FALSE, op.sender, op.context, 0, NoFields)
             ELSE object_get_all_callback(close_file(opened, op.do_id), TRUE, op.sender,
                                          op.context, file.dclass, file.fields)

\* DatabaseSetFieldFSM.enterStart, for SET_FIELD (callback FALSE) and for
\* SET_FIELD_IF_EQUALS (callback TRUE). The one value it unpacks is the first
\* after the field number. With a callback, the failure for a file with no
\* fields raises in the callback (self._dc_class) and the success raises on
\* calling it (cleanup passes one argument too few).
DatabaseSetFieldFSM_enterStart(self, op) ==
    IF has_file(self, op.do_id) THEN Raised(self)
    ELSE LET opened == open_file(self, op.do_id)
             file == self.disk[op.do_id]
         IN  IF ~file.exists THEN Raised(opened)
             ELSE IF file.dclass \notin DBClasses
             THEN IF op.callback
                  THEN object_set_field_if_equals_callback(opened, op.sender, op.context)
                  ELSE Done(opened, << >>)
             ELSE IF file.fields = NoFields
             THEN IF op.callback THEN Raised(opened) ELSE Done(opened, << >>)
             ELSE LET written ==
                          [ opened EXCEPT !.disk[op.do_id].fields[op.field_data[1]] =
                                              op.field_data[2] ]
                  IN  IF op.callback THEN Raised(close_file(written, op.do_id))
                      ELSE Done(close_file(written, op.do_id), << >>)

\* an operation of the queue; dg is history: the datagram it was made from
Operation(fsm_class, dg, context, do_id, dc_id, field_data, callback) ==
    [ fsm_class |-> fsm_class, sender |-> dg[3], context |-> context, do_id |-> do_id,
      dc_id |-> dc_id, field_data |-> field_data, callback |-> callback, dg |-> dg ]

\* DatabaseServer.handle_datagram and the four handlers it calls:
\* handle_object_set_field_if_equals reads the id first and the context second
DatabaseServer_handle_datagram(self, dg) ==
    LET add_operation(operation) == [ self EXCEPT !.operations = Append(@, operation) ]
    IN  IF dg[4] = DBSERVER_CREATE_OBJECT
        THEN add_operation(Operation("DatabaseCreateFSM", dg, Arg(dg, 1), 0, Arg(dg, 2),
                                     Rest(dg, 4), TRUE))
        ELSE IF dg[4] = DBSERVER_OBJECT_GET_ALL
        THEN add_operation(Operation("DatabaseRetrieveFSM", dg, Arg(dg, 1), Arg(dg, 2), 0,
                                     << >>, TRUE))
        ELSE IF dg[4] = DBSERVER_OBJECT_SET_FIELD
        THEN add_operation(Operation("DatabaseSetFieldFSM", dg, 0, Arg(dg, 1), 0,
                                     Rest(dg, 2), FALSE))
        ELSE IF dg[4] = DBSERVER_OBJECT_SET_FIELD_IF_EQUALS
        THEN add_operation(Operation("DatabaseSetFieldFSM", dg, Arg(dg, 2), Arg(dg, 1), 0,
                                     Rest(dg, 3), TRUE))
        ELSE self

\* FSM.request('Start') of an operation
enterStart(self, op) ==
    IF op.fsm_class = "DatabaseCreateFSM" THEN DatabaseCreateFSM_enterStart(self, op)
    ELSE IF op.fsm_class = "DatabaseRetrieveFSM" THEN DatabaseRetrieveFSM_enterStart(self, op)
    ELSE DatabaseSetFieldFSM_enterStart(self, op)

\* DatabaseOperationManager.__flush: the operations in order until the queue
\* is empty or one of them raises
RECURSIVE flush_loop(_, _)
flush_loop(self, out) ==
    IF self.operations = << >> THEN Done(self, out)
    ELSE LET r == enterStart([ self EXCEPT !.operations = Tail(@) ], Head(self.operations))
         IN  IF r.raised THEN [ db |-> r.db, out |-> out, raised |-> TRUE ]
             ELSE flush_loop(r.db, out \o r.out)

\* the server once an exception has left its task: task_mgr.run() raises it
\* in main() (main.py 89), the process ends with its memory, the directory
\* stays as it is
Stopped(self) ==
    [ self EXCEPT !.running = FALSE, !.files = {}, !.allocator = 0, !.operations = << >> ]

\* DatabaseServer.shutdown: the open files are closed, which saves them
RECURSIVE shutdown_loop(_, _)
shutdown_loop(self, filenames) ==
    IF filenames = {} THEN self
    ELSE LET filename == CHOOSE f \in filenames : TRUE
         IN  shutdown_loop(close_file(save(self, filename), filename), filenames \ {filename})

DatabaseServer_shutdown(self) == Stopped(shutdown_loop(self, self.files))

\* the Database Server set up over an empty directory
InitDatabase == DatabaseInterface_setup(NoDatabase)

-----------------------------------------------------------------------------
(* The Client Agent's operations (realtime/clientagent.py) and the         *)
(* interface they reach the Database Server through (realtime/util.py).    *)
(* An operator takes and returns the agent n: the record of its clients    *)
(* with, besides, the fields of its account manager and of its database    *)
(* interface.                                                              *)

\* the play tokens clients log in with
PlayTokens == { 1 }

\* the classes and fields of the dc file the operations name
Account == 2
ACCOUNT_AV_SET == 2
setPosIndex == 2
\* the slots of an account: ACCOUNT_AV_SET is [0] * 6 when it is created
AvatarSlots == 6
NoAvatars == [ i \in 1..AvatarSlots |-> 0 ]

\* the messages the operations answer a client with
CLIENT_LOGIN_2_RESP == 17
CLIENT_CREATE_AVATAR_RESP == 7
CLIENT_DELETE_AVATAR_RESP == 5

\* the contexts of the interface are this many bits wide, and the operations
\* clients begin in a run are this many
ContextBits == 4
MaxRequests == 4

\* the responses no request has caused are this many in a run, and their
\* contexts are 1 to this
MaxUnexpected == 1
MaxUnexpectedContext == 2

\* field.pack_args of an avatar list: the ids as the digits of one number,
\* which is not 0 (0 is a field a dict does not have)
PackAvSet(avatar_list) ==
    LET pack[i \in 1..(Len(avatar_list) + 1)] ==
            IF i > Len(avatar_list) THEN 1
            ELSE avatar_list[i] + (max_id + 1) * (pack[i + 1] - 1) + 1
    IN pack[1]

\* field.unpack_args of it
UnpackAvSet(value) ==
    [ i \in 1..AvatarSlots |-> ((value - 1) \div ((max_id + 1) ^ (i - 1))) % (max_id + 1) ]

\* the fields of a response: field number, value, field number, ...
UnpackDBFields(field_data) ==
    [ field \in DBFields |->
        IF \E i \in 1..(Len(field_data) \div 2) : field_data[2 * i - 1] = field
        THEN field_data[2 * (CHOOSE j \in 1..(Len(field_data) \div 2) : field_data[2 * j - 1] = field)]
        ELSE 0 ]

\* the agent before any client has connected; requested, calls and closed are
\* history: the callback each context was given to, the callbacks the last
\* response invoked, the clients whose connection has been shut down, and the
\* number of responses that no request of the agent has caused
NoAgent ==
    [ channel2fsm |-> EmptyDict, fsms |-> << >>, context |-> 0, callbacks |-> EmptyDict,
      dclasses |-> EmptyDict, dbm |-> [ play_token \in PlayTokens |-> 0 ],
      requested |-> EmptyDict, calls |-> << >>, closed |-> {}, unexpected |-> 0,
      outbox |-> << >>, inbox |-> << >>, running |-> TRUE ]

\* a client the listener has not accepted yet
NoClient == [ NewClient(0) EXCEPT !.connected = FALSE ]

\* a callback: a method of an operation, with what its closure holds
Callback(fsm, method, avatar_id) == [ fsm |-> fsm, method |-> method, avatar_id |-> avatar_id ]

\* an operation of the account manager
ClientOperation(cls, c, play_token, account_id, avatar_id, index) ==
    [ cls |-> cls, client |-> c, state |-> "Off", play_token |-> play_token,
      account_id |-> account_id, avatar_id |-> avatar_id, index |-> index,
      pending_avatars |-> << >>, avatar_list |-> << >>, avatar_fields_none |-> FALSE,
      completed |-> 0 ]

\* DatabaseInterface.get_context
get_context(n) == [ n EXCEPT !.context = (@ + 1) % (2 ^ ContextBits) ]

\* DatabaseInterface.create_object
DatabaseInterface_create_object(n, channel_id, dclass, fields, callback) ==
    LET n1 == get_context(n)
        ctx == n1.context
    IN Send([ n1 EXCEPT !.callbacks = DictPut(@, ctx, callback),
                        !.requested = DictPut(@, ctx, callback) ],
            create_object(channel_id, ctx, dclass, fields))

\* DatabaseInterface.query_object with no field names
DatabaseInterface_query_object(n, channel_id, do_id, callback, dclass) ==
    LET n1 == get_context(n)
        ctx == n1.context
    IN Send([ n1 EXCEPT !.callbacks = DictPut(@, ctx, callback),
                        !.dclasses = DictPut(@, ctx, dclass),
                        !.requested = DictPut(@, ctx, callback) ],
            query_object(channel_id, ctx, do_id))

\* DatabaseInterface.update_object of one field with old_fields None: no
\* context is taken; a callback, if given, is called by the caller at once
DatabaseInterface_update_object(n, channel_id, do_id, field, new) ==
    Send(n, update_object(channel_id, 0, do_id, field, new, 0))

has_fsm(n, channel) == channel \in DOMAIN n.channel2fsm

\* ClientOperationManager.stop_operation
stop_operation(n, c) ==
    LET channel == n.clients[c].allocated_channel
    IN IF ~has_fsm(n, channel) THEN n
       ELSE [ n EXCEPT !.fsms[n.channel2fsm[channel]].state = "Off",
                       !.channel2fsm = DictRemove(@, channel) ]

\* the callback a client gave its operation, called on a success
ClientCallback(n, fsm, args) ==
    LET self == n.fsms[fsm]
        c == self.client
        n1 == [ n EXCEPT !.fsms[fsm].completed = @ + 1 ]
    IN CASE self.cls = "LoadAccountFSM" ->
                ToClient(n1, c, << CLIENT_LOGIN_2_RESP, self.play_token >>)
         [] self.cls = "CreateAvatarFSM" ->
                ToClient(n1, c, << CLIENT_CREATE_AVATAR_RESP, args[1] >>)
         [] self.cls = "DeleteAvatarFSM" ->
                ToClient(n1, c, << CLIENT_DELETE_AVATAR_RESP >> \o args)
         [] OTHER ->
                handle_object_enter_owner(n1, c, FALSE, RoutedDatagram(0, 0, 0, args))

\* ClientOperation.cleanup
cleanup(n, fsm, success, args) ==
    LET n1 == [ stop_operation(n, n.fsms[fsm].client) EXCEPT !.fsms[fsm].state = "Off" ]
    IN IF success THEN ClientCallback(n1, fsm, args) ELSE n1

\* an exception leaves the handler
Raise(n) == [ n EXCEPT !.running = FALSE ]

\* LoadAccountFSM.enterSetAccount and its cleanup
LoadAccountFSM_enterSetAccount(n, fsm) ==
    LET self == n.fsms[fsm]
    IN cleanup(enterSetAccount([ n EXCEPT !.fsms[fsm].state = "SetAccount" ],
                               self.client, self.account_id),
               fsm, TRUE, << >>)

\* LoadAccountFSM.enterStart, and enterCreate for a token the dbm does not have
LoadAccountFSM_enterStart(n, fsm) ==
    LET self == n.fsms[fsm]
        channel == n.clients[self.client].channel
    IN IF n.dbm[self.play_token] = 0
       THEN DatabaseInterface_create_object(
                [ n EXCEPT !.fsms[fsm].state = "Create" ], channel, Account,
                [ NoFields EXCEPT ![1] = self.play_token, ![ACCOUNT_AV_SET] = PackAvSet(NoAvatars) ],
                Callback(fsm, "LoadAccountFSM.__account_created", 0))
       ELSE DatabaseInterface_query_object(
                [ n EXCEPT !.fsms[fsm].state = "Start",
                           !.fsms[fsm].account_id = n.dbm[self.play_token] ],
                channel, n.dbm[self.play_token],
                Callback(fsm, "LoadAccountFSM.__account_loaded", 0), Account)

\* LoadAccountFSM.__account_loaded: a failure is logged and the operation
\* stays as it is
LoadAccountFSM_account_loaded(n, fsm, dclass, fields) ==
    IF dclass = 0 /\ fields = NoFields THEN n
    ELSE LoadAccountFSM_enterSetAccount(n, fsm)

LoadAccountFSM_account_created(n, fsm, account_id) ==
    IF account_id = 0 THEN cleanup(n, fsm, FALSE, << >>)
    ELSE LoadAccountFSM_enterSetAccount(
             [ n EXCEPT !.fsms[fsm].account_id = account_id,
                        !.dbm[n.fsms[fsm].play_token] = account_id ], fsm)

\* CreateAvatarFSM.enterStart
CreateAvatarFSM_enterStart(n, fsm) ==
    LET self == n.fsms[fsm]
    IN DatabaseInterface_create_object(
           [ n EXCEPT !.fsms[fsm].state = "Start" ], n.clients[self.client].channel,
           DistributedToon, [ NoFields EXCEPT ![1] = 1, ![setPosIndex] = self.index ],
           Callback(fsm, "CreateAvatarFSM.__avatar_created", 0))

CreateAvatarFSM_avatar_created(n, fsm, avatar_id) ==
    LET self == n.fsms[fsm]
    IN DatabaseInterface_query_object(n, n.clients[self.client].channel, self.account_id,
                                      Callback(fsm, "CreateAvatarFSM.__account_loaded", avatar_id),
                                      Account)

\* CreateAvatarFSM.__account_loaded: the list as read, with the slot set, is
\* written back; fields None or without the list raises
CreateAvatarFSM_account_loaded(n, fsm, dclass, fields, avatar_id) ==
    LET self == n.fsms[fsm]
    IN IF fields[ACCOUNT_AV_SET] = 0 THEN Raise(n)
       ELSE LET avatar_list == [ UnpackAvSet(fields[ACCOUNT_AV_SET]) EXCEPT ![self.index] = avatar_id ]
            IN cleanup(DatabaseInterface_update_object(n, n.clients[self.client].channel,
                                                       self.account_id, ACCOUNT_AV_SET,
                                                       PackAvSet(avatar_list)),
                       fsm, TRUE, << avatar_id >>)

\* DeleteAvatarFSM.enterStart
DeleteAvatarFSM_enterStart(n, fsm) ==
    LET self == n.fsms[fsm]
    IN DatabaseInterface_query_object([ n EXCEPT !.fsms[fsm].state = "Start" ],
                                      n.clients[self.client].channel, self.account_id,
                                      Callback(fsm, "DeleteAvatarFSM.__account_loaded", 0), Account)

\* DeleteAvatarFSM.enterApplyAvatars, the callback update_object calls at once
\* with None, and enterSetAvatars, which raises on the fields of an avatar
\* whose query failed
DeleteAvatarFSM_enterApplyAvatars(n, fsm) ==
    LET self == n.fsms[fsm]
        avatar_list == [ i \in 1..AvatarSlots |->
                           IF /\ self.avatar_list[i] = self.avatar_id
                              /\ \A j \in 1..(i - 1) : self.avatar_list[j] # self.avatar_id
                           THEN 0 ELSE self.avatar_list[i] ]
        n1 == DatabaseInterface_update_object(
                  [ n EXCEPT !.fsms[fsm].state = "ApplyAvatars" ],
                  n.clients[self.client].channel, self.account_id, ACCOUNT_AV_SET,
                  PackAvSet(avatar_list))
    IN IF self.avatar_fields_none THEN Raise([ n1 EXCEPT !.fsms[fsm].state = "SetAvatars" ])
       ELSE cleanup([ n1 EXCEPT !.fsms[fsm].state = "SetAvatars", !.fsms[fsm].avatar_list = << >> ],
                    fsm, TRUE, << >>)

\* the loop "for avatar_id in self.avatar_list" of DeleteAvatarFSM.__account_loaded
RECURSIVE query_avatars_loop(_, _, _)
query_avatars_loop(n, fsm, avatar_list) ==
    IF avatar_list = << >> THEN n
    ELSE LET self == n.fsms[fsm]
             avatar_id == Head(avatar_list)
         IN IF avatar_id = 0 \/ avatar_id = self.avatar_id
            THEN query_avatars_loop(n, fsm, Tail(avatar_list))
            ELSE query_avatars_loop(
                     DatabaseInterface_query_object(
                         [ n EXCEPT !.fsms[fsm].pending_avatars = Append(@, avatar_id) ],
                         n.clients[self.client].channel, avatar_id,
                         Callback(fsm, "DeleteAvatarFSM.response", avatar_id), DistributedToon),
                     fsm, Tail(avatar_list))

DeleteAvatarFSM_account_loaded(n, fsm, dclass, fields) ==
    IF fields[ACCOUNT_AV_SET] = 0 THEN Raise(n)
    ELSE LET avatar_list == UnpackAvSet(fields[ACCOUNT_AV_SET])
             n1 == query_avatars_loop([ n EXCEPT !.fsms[fsm].avatar_list = avatar_list ], fsm,
                                      avatar_list)
         IN IF n1.fsms[fsm].pending_avatars = << >>
            THEN DeleteAvatarFSM_enterApplyAvatars(n1, fsm) ELSE n1

\* the closure "response" of DeleteAvatarFSM.__account_loaded
DeleteAvatarFSM_response(n, fsm, dclass, fields, avatar_id) ==
    IF ~InList(avatar_id, n.fsms[fsm].pending_avatars) THEN Raise(n)
    ELSE LET n1 == [ n EXCEPT !.fsms[fsm].pending_avatars = ListRemove(@, avatar_id),
                              !.fsms[fsm].avatar_fields_none = @ \/ dclass = 0 ]
         IN IF n1.fsms[fsm].pending_avatars = << >>
            THEN DeleteAvatarFSM_enterApplyAvatars(n1, fsm) ELSE n1

\* GetAvatarDetailsFSM.enterStart
GetAvatarDetailsFSM_enterStart(n, fsm) ==
    LET self == n.fsms[fsm]
    IN DatabaseInterface_query_object([ n EXCEPT !.fsms[fsm].state = "Start" ],
                                      n.clients[self.client].channel, self.avatar_id,
                                      Callback(fsm, "GetAvatarDetailsFSM.response", 0),
                                      DistributedToon)

\* the closure "response" of GetAvatarDetailsFSM.enterStart and
\* enterSendDetails: the fields are packed after the id, parent 0, zone 0 and
\* class 0, and the client's handle_object_enter_owner is called with them;
\* fields None raises
GetAvatarDetailsFSM_enterSendDetails(n, fsm, dclass, fields) ==
    IF dclass = 0 THEN Raise(n)
    ELSE cleanup([ n EXCEPT !.fsms[fsm].state = "SendDetails" ], fsm, TRUE,
                 << n.fsms[fsm].avatar_id, 0, 0, 0 >> \o PackDBFields(fields, DBFields))

\* ClientOperationManager.run_operation and ClientAccountManager.handle_operation
handle_operation(n, operation) ==
    LET channel == n.clients[operation.client].allocated_channel
    IN IF has_fsm(n, channel) THEN n
       ELSE LET fsm == Len(n.fsms) + 1
                n1 == [ n EXCEPT !.fsms = Append(@, operation),
                                 !.channel2fsm = DictPut(@, channel, fsm) ]
            IN CASE operation.cls = "LoadAccountFSM" -> LoadAccountFSM_enterStart(n1, fsm)
                 [] operation.cls = "CreateAvatarFSM" -> CreateAvatarFSM_enterStart(n1, fsm)
                 [] operation.cls = "DeleteAvatarFSM" -> DeleteAvatarFSM_enterStart(n1, fsm)
                 [] OTHER -> GetAvatarDetailsFSM_enterStart(n1, fsm)

\* the callbacks given to create_object take the id, those given to
\* query_object the class and the fields
CreateCallbacks == { "LoadAccountFSM.__account_created", "CreateAvatarFSM.__avatar_created" }

\* a callback of the interface is called with one argument (the id) or with
\* two; a call with the wrong number of arguments raises
Invoke(n, callback, do_id, dclass, fields, arguments) ==
    LET n1 == [ n EXCEPT !.calls = Append(@, callback) ]
        fsm == callback.fsm
    IN CASE (arguments = 1) # (callback.method \in CreateCallbacks) -> Raise(n1)
         [] callback.method = "LoadAccountFSM.__account_created" ->
                LoadAccountFSM_account_created(n1, fsm, do_id)
         [] callback.method = "LoadAccountFSM.__account_loaded" ->
                LoadAccountFSM_account_loaded(n1, fsm, dclass, fields)
         [] callback.method = "CreateAvatarFSM.__avatar_created" ->
                CreateAvatarFSM_avatar_created(n1, fsm, do_id)
         [] callback.method = "CreateAvatarFSM.__account_loaded" ->
                CreateAvatarFSM_account_loaded(n1, fsm, dclass, fields, callback.avatar_id)
         [] callback.method = "DeleteAvatarFSM.__account_loaded" ->
                DeleteAvatarFSM_account_loaded(n1, fsm, dclass, fields)
         [] callback.method = "DeleteAvatarFSM.response" ->
                DeleteAvatarFSM_response(n1, fsm, dclass, fields, callback.avatar_id)
         [] OTHER -> GetAvatarDetailsFSM_enterSendDetails(n1, fsm, dclass, fields)

\* DatabaseInterface.handle_create_object_resp
handle_create_object_resp(n, dg) ==
    LET ctx == Arg(dg, 1)
        do_id == Arg(dg, 2)
    IN IF ctx \notin DOMAIN n.callbacks THEN n
       ELSE LET n1 == Invoke(n, n.callbacks[ctx], do_id, 0, NoFields, 1)
            IN IF ~n1.running THEN n1
               ELSE [ n1 EXCEPT !.callbacks = DictRemove(@, ctx) ]

\* handle_query_object_resp without its finally clause: the entries of the
\* context stay
handle_query_object_resp_no_finally(n, dg) ==
    LET ctx == Arg(dg, 1)
        success == Arg(dg, 2)
    IN IF ctx \notin DOMAIN n.callbacks THEN n
       ELSE IF success = 0 THEN Invoke(n, n.callbacks[ctx], 0, 0, NoFields, 2)
       ELSE IF Arg(dg, 3) \notin DBClasses THEN Raise(n)
       ELSE Invoke(n, n.callbacks[ctx], 0, Arg(dg, 3), UnpackDBFields(Rest(dg, 5)), 2)

\* DatabaseInterface.handle_query_object_resp for GET_ALL_RESP: the entries
\* of the context go in the finally clause, whatever the callback does; an
\* interface that has no class for the context raises there
handle_query_object_resp(n, dg) ==
    LET ctx == Arg(dg, 1)
        success == Arg(dg, 2)
    IN IF ctx \notin DOMAIN n.callbacks THEN n
       ELSE LET n1 == IF success = 0 THEN Invoke(n, n.callbacks[ctx], 0, 0, NoFields, 2)
                      ELSE IF Arg(dg, 3) \notin DBClasses THEN Raise(n)
                      ELSE Invoke(n, n.callbacks[ctx], 0, Arg(dg, 3),
                                  UnpackDBFields(Rest(dg, 5)), 2)
                n2 == [ n1 EXCEPT !.callbacks = DictRemove(@, ctx) ]
            IN IF ctx \notin DOMAIN n2.dclasses THEN Raise(n2)
               ELSE [ n2 EXCEPT !.dclasses = DictRemove(@, ctx) ]

\* DatabaseInterface.handle_datagram, called by Client.handle_internal_datagram
\* for every message type the client has no handler for
DatabaseInterface_handle_datagram(n, dg) ==
    IF dg[4] = DBSERVER_CREATE_OBJECT_RESP THEN handle_create_object_resp(n, dg)
    ELSE IF dg[4] = DBSERVER_OBJECT_GET_ALL_RESP THEN handle_query_object_resp(n, dg)
    ELSE n

\* Client.shutdown: the operation is stopped if one is registered under the
\* client's current channel, then the handler is shut down
shutdown(n, c) ==
    Client_shutdown(IF has_fsm(n, n.clients[c].channel) THEN stop_operation(n, c) ELSE n, c)

-----------------------------------------------------------------------------
(* The cluster: the State Server and the Client Agent are participants of   *)
(* the Message Director. What a component writes upstream the Message       *)
(* Director's participant handles at once (Participant.handle_datagram);    *)
(* what the Message Director routes to a component the component handles    *)
(* in the same step.                                                        *)

SS == [ shards |-> shards, objects |-> objects, out |-> << >> ]

CA == [ clients |-> clients, channel2handlers |-> client_channels, out |-> << >>, sent |-> << >> ]

\* Participant.handle_datagram on each datagram a component wrote, in order
RECURSIVE Feed(_, _, _)
Feed(s, handler, datagrams) ==
    IF datagrams = << >> THEN s
    ELSE Feed(Participant_handle_datagram(s, handler, Head(datagrams)), handler, Tail(datagrams))

Step(op, c, dg, out, sent) == [ op |-> op, client |-> c, dg |-> dg, out |-> out, sent |-> sent ]

NoUpdate == [ client |-> 0, dg |-> << >>, accepted |-> FALSE, zone |-> 0, interested |-> {},
              neighbours |-> {}, knew |-> {}, resp |-> [ c \in ClientIds |-> 0 ] ]

NoEntry == [ client |-> 0, parent |-> 0, zone |-> 0, from |-> 0, there |-> {},
             creates |-> [ c \in ClientIds |-> [ d \in ClientIds |-> 0 ] ] ]

NoTransition == [ do_id |-> 0, events |-> << >> ]

NoReply == [ type |-> 0, zone |-> 0 ]

NoTrack == [ update |-> NoUpdate, entry |-> NoEntry, transition |-> NoTransition,
             deleted |-> {}, replied |-> [ c \in ClientIds |-> NoReply ] ]

NoneUsed == [ zone |-> 0, shard |-> 0, update |-> 0 ]

\* no component but the Message Director has started
IdleCluster ==
    /\ shards = EmptyDict
    /\ objects = EmptyDict
    /\ clients = [ c \in ClientIds |-> NewClient(AllocatedChannel(c)) ]
    /\ client_channels = [ ch \in ClusterChannels |-> None ]
    /\ step = Step("init", 0, << >>, << >>, << >>)
    /\ used = NoneUsed
    /\ track = NoTrack
    /\ database = InitDatabase
    /\ agent = NoAgent

\* the Client Agent once every client has connected and logged in: Client.setup
\* registers the allocated channel, LoadAccountFSM.enterSetAccount the account's
RECURSIVE LoggedIn(_, _)
LoggedIn(a, cs) ==
    IF cs = << >> THEN a
    ELSE LoggedIn(enterSetAccount(
                      Client_register_for_channel(
                          [ a EXCEPT !.clients[Head(cs)] = NewClient(AllocatedChannel(Head(cs))) ],
                          Head(cs), AllocatedChannel(Head(cs))),
                      Head(cs), AccountOf(Head(cs))),
                  Tail(cs))

InitCA ==
    LoggedIn([ clients |-> [ c \in ClientIds |-> NewClient(AllocatedChannel(c)) ],
               channel2handlers |-> [ ch \in ClusterChannels |-> None ],
               out |-> << >>, sent |-> << >> ],
             SortedKeys(ClientIds))

\* the Message Director once the State Server has registered its channel
\* (NetworkConnector.setup) and the Client Agent its clients' channels
InitClusterMD ==
    Feed(Participant_handle_datagram(
             [ participants |-> [ ch \in ClusterChannels |-> None ],
               channel2handlers |-> [ ch \in ClusterChannels |-> None ],
               post_messages |-> [ ch \in ClusterChannels |-> << >> ],
               messages |-> << >>, wire |-> << >>, events |-> << >> ],
             SSConn, ControlDatagram(STATESERVER_CHANNEL, CONTROL_SET_CHANNEL, << >>)),
         CAConn, InitCA.out)

-----------------------------------------------------------------------------
(* The Message Director's operations.                                      *)

Op(op, c, channel, events) == [ op |-> op, conn |-> c, channel |-> channel, events |-> events ]

RECURSIVE SumLen(_, _)
SumLen(f, S) == IF S = {} THEN 0
                ELSE LET x == CHOOSE y \in S : TRUE IN Len(f[x]) + SumLen(f, S \ {x})

\* the state after handler p has handled dg; the history names the peer and the
\* channel of a SET_CHANNEL or REMOVE_CHANNEL only
Handled(p, dg, op, channel) ==
    LET s == Participant_handle_datagram(MD, p, dg)
    IN /\ participants' = s.participants
       /\ channel2handlers' = s.channel2handlers
       /\ post_messages' = s.post_messages
       /\ messages' = s.messages
       /\ wire' = s.wire
       /\ last' = Op(op, IF channel = None THEN None ELSE p, channel, s.events)

InitMD ==
    /\ conn = [ p \in Conns |-> "new" ]
    /\ participants = [ c \in Channels |-> None ]
    /\ channel2handlers = [ c \in Channels |-> None ]
    /\ post_messages = [ c \in Channels |-> << >> ]
    /\ messages = << >>
    /\ wire = << >>
    /\ last = Op("init", None, None, << >>)
    /\ lastOp = [ c \in Channels |-> "none" ]

\* NetworkListener.handle_incoming_connection: a new participant
Connect(p) ==
    /\ conn[p] = "new"
    /\ conn' = [ conn EXCEPT ![p] = "open" ]
    /\ last' = Op("connect", None, None, << >>)
    /\ UNCHANGED << participants, channel2handlers, post_messages, messages, wire >>

\* NetworkListener.handle_disconnected: remove_handler shuts the handler down
Disconnect(p) ==
    /\ conn[p] = "open"
    /\ LET s == NetworkHandler_shutdown(MD, p, NewHandlerChannel, NewHandlerChannel,
                                        NewHandlerChannel)
       IN /\ participants' = s.participants
          /\ channel2handlers' = s.channel2handlers
          /\ post_messages' = s.post_messages
          /\ messages' = s.messages
          /\ wire' = s.wire
          /\ last' = Op("disconnect", p, None, s.events)
    /\ conn' = [ conn EXCEPT ![p] = "closed" ]

SetChannel(p, c) ==
    /\ conn[p] = "open"
    /\ Handled(p, ControlDatagram(c, CONTROL_SET_CHANNEL, << >>), "set_channel", c)
    /\ UNCHANGED conn

RemoveChannel(p, c) ==
    /\ conn[p] = "open"
    /\ Handled(p, ControlDatagram(c, CONTROL_REMOVE_CHANNEL, << >>), "remove_channel", c)
    /\ UNCHANGED conn

AddPostRemove(p, c, inner) ==
    /\ conn[p] = "open"
    /\ SumLen(post_messages, Channels) + Len(messages) < MaxPostRemoves
    /\ Handled(p, ControlDatagram(c, CONTROL_ADD_POST_REMOVE, inner), "add_post_remove", None)
    /\ UNCHANGED conn

ClearPostRemove(p, c) ==
    /\ conn[p] = "open"
    /\ post_messages[c] # << >>
    /\ Handled(p, ControlDatagram(c, CONTROL_CLEAR_POST_REMOVE, << >>), "clear_post_remove", None)
    /\ UNCHANGED conn

SendRouted(p, dg) ==
    /\ conn[p] = "open"
    /\ Len(messages) < MaxQueue
    /\ Handled(p, dg, "route", None)
    /\ UNCHANGED conn

\* the flush task: drain the queue
Flush ==
    /\ messages # << >>
    /\ messages' = << >>
    /\ wire' = << >>
    /\ last' = Op("flush", None, None, flush(messages))
    /\ UNCHANGED << conn, participants, channel2handlers, post_messages >>

\* every peer of the Message Director at once
Next ==
    \/ \E p \in Conns : Connect(p) /\ UNCHANGED << lastOp, clusterVars >>
    \/ \E p \in Conns : Disconnect(p) /\ UNCHANGED << lastOp, clusterVars >>
    \/ \E p \in Conns, c \in Channels : SetChannel(p, c) /\ UNCHANGED << lastOp, clusterVars >>
    \/ \E p \in Conns, c \in Channels : RemoveChannel(p, c) /\ UNCHANGED << lastOp, clusterVars >>
    \/ \E p \in Conns, c \in Channels, inner \in PostRemoveDatagrams :
           AddPostRemove(p, c, inner) /\ UNCHANGED << lastOp, clusterVars >>
    \/ \E p \in Conns, c \in Channels : ClearPostRemove(p, c) /\ UNCHANGED << lastOp, clusterVars >>
    \/ \E p \in Conns, dg \in RoutedDatagrams : SendRouted(p, dg) /\ UNCHANGED << lastOp, clusterVars >>
    \/ Flush /\ UNCHANGED << lastOp, clusterVars >>

\* the Message Director alone: no other component has started
Init == InitMD /\ IdleCluster

Spec == Init /\ [][Next]_vars

\* a single peer: the only connection that is ever accepted
Peer == CHOOSE p \in Conns : \A q \in Conns : p <= q

PeerSetChannel(c) ==
    /\ SetChannel(Peer, c)
    /\ lastOp' = [ lastOp EXCEPT ![c] = "set" ]
    /\ UNCHANGED clusterVars

PeerRemoveChannel(c) ==
    /\ RemoveChannel(Peer, c)
    /\ lastOp' = [ lastOp EXCEPT ![c] = "remove" ]
    /\ UNCHANGED clusterVars

PeerNext ==
    \/ Connect(Peer) /\ UNCHANGED << lastOp, clusterVars >>
    \/ \E c \in Channels : PeerSetChannel(c)
    \/ \E c \in Channels : PeerRemoveChannel(c)
    \/ \E c \in Channels, inner \in PostRemoveDatagrams :
           AddPostRemove(Peer, c, inner) /\ UNCHANGED << lastOp, clusterVars >>
    \/ \E c \in Channels : ClearPostRemove(Peer, c) /\ UNCHANGED << lastOp, clusterVars >>
    \/ \E dg \in RoutedDatagrams : SendRouted(Peer, dg) /\ UNCHANGED << lastOp, clusterVars >>
    \/ Flush /\ UNCHANGED << lastOp, clusterVars >>

SpecPeer == Init /\ [][PeerNext]_vars

-----------------------------------------------------------------------------
(* Properties of the Message Director.                                     *)

\* the events of kind ev among events, in order
EventsOf(events, ev) == SelectSeq(events, LAMBDA e : e.ev = ev)

\* the post-removes of channel, as the events their replay in order produces
ReplaysOf(channel) ==
    [ i \in 1..Len(post_messages[channel]) |-> Event("replay", channel, post_messages[channel][i]) ]

\* C1: for every routed datagram accepted into the queue, when the queue is
\* flushed: if a participant is bound to the datagram's destination channel,
\* that participant's peer is written the datagram with channel, sender,
\* message type and payload as sent, and nobody else is written it; if no
\* participant is bound, nobody is written anything. That is, the writes of a
\* flush are exactly the queued datagrams whose destination is bound, each
\* written as sent to the participant bound to its destination.
C1_RoutedToBoundParticipant ==
    [][ last'.op = "flush" =>
          LET sent == SelectSeq(wire, LAMBDA dg : participants[dg[2]] # None)
          IN last'.events =
                 [ i \in 1..Len(sent) |-> Event("write", participants[sent[i][2]], sent[i]) ]
      ]_vars

\* C2: when a peer's connection closes, then for every channel the peer had
\* bound, the channel's post-removes are processed in registration order, each
\* once, and the channel is no longer in the participant table afterwards.
C2_CloseUnbindsAndReplays ==
    [][ last'.op = "disconnect" =>
          \A c \in Channels :
              participants[c] = last'.conn =>
                  /\ participants'[c] = None
                  /\ EventsOf(SelectSeq(last'.events, LAMBDA e : e.channel = c), "replay")
                         = ReplaysOf(c)
      ]_vars

\* C3: each channel is bound to at most one participant (the participant table
\* and the listener's channel table name the same single handler), and a
\* SET_CHANNEL(c) from a peer while c is bound to a different peer is rejected:
\* the table keeps mapping c to the peer that bound it first.
C3_FirstWins ==
    /\ [](\A c \in Channels : /\ participants[c] \in Conns \cup {None}
                              /\ channel2handlers[c] = participants[c])
    /\ [][ \A c \in Channels :
              (last'.op = "set_channel" /\ last'.channel = c /\ participants[c] # None)
                  => participants'[c] = participants[c]
        ]_vars

\* a SET_CHANNEL from a peer other than the one the channel is bound to has
\* just been handled
C3_Witness ==
    /\ last.op = "set_channel"
    /\ participants[last.channel] \notin {None, last.conn}

\* C4: on REMOVE_CHANNEL(c) for a bound channel c, every post-remove registered
\* under c is processed (handled as a datagram just received, so queued for
\* routing), in registration order and each once, and only then is c removed
\* from the participant table.
C4_ReplayBeforeUnbind ==
    [][ \A c \in Channels :
          (last'.op = "remove_channel" /\ last'.channel = c /\ participants[c] # None) =>
              /\ last'.events = ReplaysOf(c) \o << Event("unbind", c, << >>) >>
              /\ wire' = wire \o post_messages[c]
              /\ Len(messages') = Len(wire')
              /\ post_messages'[c] = << >>
              /\ participants'[c] = None
      ]_vars

\* a REMOVE_CHANNEL has just replayed two different post-removes and unbound
C4_Witness ==
    /\ last.op = "remove_channel"
    /\ Len(last.events) = 3
    /\ last.events[1].ev = "replay" /\ last.events[2].ev = "replay"
    /\ last.events[1].dg # last.events[2].dg
    /\ last.events[3].ev = "unbind"
    /\ participants[last.channel] = None

-----------------------------------------------------------------------------
(* The cluster's operations.                                                *)

InitCluster ==
    /\ conn = [ p \in Conns |-> "open" ]
    /\ participants = InitClusterMD.participants
    /\ channel2handlers = InitClusterMD.channel2handlers
    /\ post_messages = InitClusterMD.post_messages
    /\ messages = << >>
    /\ wire = << >>
    /\ last = Op("init", None, None, << >>)
    /\ lastOp = [ c \in Channels |-> "none" ]
    /\ shards = EmptyDict
    /\ objects = EmptyDict
    /\ clients = InitCA.clients
    /\ client_channels = InitCA.channel2handlers
    /\ step = Step("init", 0, << >>, << >>, << >>)
    /\ used = NoneUsed
    /\ track = NoTrack
    /\ database = InitDatabase
    /\ agent = NoAgent

\* the zone changes, shard changes and field updates clients begin in a run
MaxZoneChanges == 2
MaxShardChanges == 2
MaxUpdates == 1

ClusterMD(s) ==
    /\ participants' = s.participants
    /\ channel2handlers' = s.channel2handlers
    /\ post_messages' = s.post_messages
    /\ messages' = s.messages
    /\ wire' = s.wire
    /\ UNCHANGED << conn, last, lastOp, database, agent >>

\* a peer begins an operation only when the queue is this short
Quiet == Len(messages) < MaxInFlight

\* the datagrams of a sequence that satisfy a test, counted
CountOf(seq, Test(_)) == Len(SelectSeq(seq, Test))

IsCreate(message) ==
    message[1] \in { CLIENT_CREATE_OBJECT_REQUIRED, CLIENT_CREATE_OBJECT_REQUIRED_OTHER }

\* the clients whose interest includes the location of the object
Interested(do_id) ==
    IF do_id \notin DOMAIN objects THEN {}
    ELSE { c \in ClientIds :
             /\ AvatarOf(c) \in DOMAIN objects
             /\ objects[AvatarOf(c)].owner_id = clients[c].channel
             /\ objects[do_id].parent_id # 0
             /\ objects[AvatarOf(c)].parent_id = objects[do_id].parent_id
             /\ has_interest_zone(clients[c], objects[do_id].zone_id) }

\* the clients that own an object under the parent of the object
Neighbours(do_id) ==
    IF do_id \notin DOMAIN objects THEN {}
    ELSE { c \in ClientIds :
             \E d \in DOMAIN objects :
                 /\ objects[d].owner_id = clients[c].channel
                 /\ objects[do_id].parent_id # 0
                 /\ objects[d].parent_id = objects[do_id].parent_id }

\* the client has been sent the object's create, awaits it or owns the object
Knows(c, do_id) ==
    \/ \E zone_id \in DOMAIN clients[c].seen_objects :
           \E i \in 1..Len(clients[c].seen_objects[zone_id]) :
               clients[c].seen_objects[zone_id][i] = do_id
    \/ \E i \in 1..Len(clients[c].pending_objects) : clients[c].pending_objects[i] = do_id
    \/ \E i \in 1..Len(clients[c].owned_objects) : clients[c].owned_objects[i] = do_id

\* the clients whose avatar is in the zone, under the parent, their own zone
\* change complete
There(parent_id, zone_id) ==
    { c \in ClientIds :
        /\ AvatarOf(c) \in DOMAIN objects
        /\ objects[AvatarOf(c)].owner_id = clients[c].channel
        /\ parent_id \in DOMAIN objects
        /\ objects[AvatarOf(c)].parent_id = parent_id
        /\ objects[AvatarOf(c)].zone_id = zone_id
        /\ has_interest_zone(clients[c], zone_id)
        /\ clients[c].location_cb # "zone" }

\* the update a client began, the State Server's verdict on it and the
\* responses the clients were sent for it through the fan-out, whose datagrams
\* carry the object's id as their sender (handle_updating_field)
TrackUpdate(st) ==
    LET u == track.update
    IN CASE st.op = "update_field" ->
                [ NoUpdate EXCEPT !.client = st.client, !.dg = st.out[1] ]
         [] st.op = "ss" /\ u.client # 0 /\ st.dg = u.dg ->
                [ u EXCEPT !.accepted = (st.out # << >>),
                           !.zone = IF Arg(st.dg, 1) \in DOMAIN objects
                                    THEN objects[Arg(st.dg, 1)].zone_id ELSE 0,
                           !.interested = Interested(Arg(st.dg, 1)),
                           !.neighbours = Neighbours(Arg(st.dg, 1)) ]
         [] st.op = "ca" /\ u.client # 0 /\ st.dg[3] = Arg(u.dg, 1) ->
                [ u EXCEPT !.knew = @ \cup
                               { c \in ClientIds : /\ client_channels[st.dg[2]] = c
                                                    /\ st.dg[4] = STATESERVER_OBJECT_UPDATE_FIELD
                                                    /\ Knows(c, Arg(u.dg, 1)) },
                           !.resp =
                      [ c \in ClientIds |->
                          @[c] + CountOf(st.sent,
                                         LAMBDA m : /\ m.client = c
                                                    /\ m.message = << CLIENT_OBJECT_UPDATE_FIELD_RESP >>
                                                                      \o Rest(u.dg, 1)) ] ]
         [] OTHER -> u

\* the zone change a client began last and the creates sent since, by client
\* and by the client whose avatar is created
TrackEntry(st) ==
    LET e == track.entry
    IN CASE st.op = "set_zone" ->
                LET avatar_id == AvatarOf(st.client)
                    known == avatar_id \in DOMAIN objects
                IN [ NoEntry EXCEPT !.client = st.client,
                                    !.parent = IF known THEN objects[avatar_id].parent_id ELSE 0,
                                    !.zone = Arg(st.out[1], 1),
                                    !.from = IF known THEN objects[avatar_id].zone_id ELSE 0,
                                    !.there = IF known
                                              THEN There(objects[avatar_id].parent_id, Arg(st.out[1], 1))
                                                       \ { st.client }
                                              ELSE {} ]
         [] st.op = "ca" ->
                [ e EXCEPT !.creates =
                      [ c \in ClientIds |-> [ d \in ClientIds |->
                          @[c][d] + CountOf(st.sent,
                                            LAMBDA m : /\ m.client = c
                                                       /\ IsCreate(m.message)
                                                       /\ m.message[3] = AvatarOf(d)) ] ] ]
         [] OTHER -> e

\* the SET_ZONE of an owned object the State Server handled last and what it
\* has emitted in the object's name since, until a peer begins another
\* operation: << message type, channel >>
EmittedFor(out, do_id) ==
    LET mine == SelectSeq(out, LAMBDA dg : dg[2] # CONTROL_MESSAGE /\ dg[3] = do_id)
    IN [ i \in 1..Len(mine) |-> << mine[i][4], mine[i][2] >> ]

TrackTransition(st) ==
    LET t == track.transition
    IN IF st.op \notin { "ss", "ca", "drop" } THEN NoTransition
       ELSE IF st.op # "ss" THEN t
       ELSE IF /\ st.dg[4] = STATESERVER_OBJECT_SET_ZONE
               /\ st.dg[2] \in DOMAIN objects
               /\ objects[st.dg[2]].owner_id # 0
       THEN [ do_id |-> st.dg[2], events |-> EmittedFor(st.out, st.dg[2]) ]
       ELSE IF t.do_id # 0 THEN [ t EXCEPT !.events = @ \o EmittedFor(st.out, t.do_id) ]
       ELSE t

\* the last reply that names a zone, of those written to each client
RECURSIVE TrackReplied(_, _)
TrackReplied(replied, sent) ==
    IF sent = << >> THEN replied
    ELSE LET message == Head(sent).message
         IN TrackReplied(IF /\ message[1] \in { CLIENT_DONE_SET_ZONE_RESP, CLIENT_GET_STATE_RESP }
                            /\ Len(message) = 2
                         THEN [ replied EXCEPT ![Head(sent).client] =
                                    [ type |-> message[1], zone |-> message[2] ] ]
                         ELSE replied,
                         Tail(sent))

Tracked(st) ==
    track' = [ update |-> TrackUpdate(st), entry |-> TrackEntry(st),
               transition |-> TrackTransition(st),
               deleted |-> (track.deleted \cup (DOMAIN objects \ DOMAIN objects'))
                               \ (DOMAIN objects' \ DOMAIN objects),
               replied |-> TrackReplied(track.replied, st.sent) ]

\* a request of client c handled by the agent: a is the agent afterwards
ClientStep(op, c, a) ==
    /\ ClusterMD(Feed(MD, CAConn, a.out))
    /\ clients' = a.clients
    /\ client_channels' = a.channel2handlers
    /\ step' = Step(op, c, << >>, a.out, a.sent)
    /\ UNCHANGED << shards, objects >>
    /\ Tracked(step')

\* CLIENT_SET_AVATAR, the database's answer included: LoadAvatarFSM.enterActivate
SetAvatar(c) ==
    /\ Quiet
    /\ clients[c].connected /\ clients[c].authenticated
    /\ clients[c].activating = 0
    /\ get_avatar_id_from_connection_channel(clients[c].channel) = 0
    /\ ClientStep("set_avatar", c, enterActivate(CA, c, AvatarOf(c)))
    /\ UNCHANGED used

\* the task LoadAvatarFSM._handle_activate_avatar
ActivateAvatar(c) ==
    /\ Quiet
    /\ clients[c].activating # 0
    /\ ClientStep("activate_avatar", c, handle_activate_avatar(CA, c))
    /\ UNCHANGED used

\* CLIENT_SET_SHARD
SetShard(c, shard_id) ==
    /\ Quiet
    /\ clients[c].connected /\ clients[c].authenticated
    /\ clients[c].owned_objects # << >>
    /\ used.shard < MaxShardChanges
    /\ ClientStep("set_shard", c, Client_handle_set_shard(CA, c, shard_id))
    /\ used' = [ used EXCEPT !.shard = @ + 1 ]

\* CLIENT_SET_ZONE
SetZone(c, zone_id) ==
    /\ Quiet
    /\ clients[c].connected /\ clients[c].authenticated
    /\ clients[c].owned_objects # << >>
    /\ used.zone < MaxZoneChanges
    /\ ClientStep("set_zone", c, Client_handle_set_zone(CA, c, zone_id))
    /\ used' = [ used EXCEPT !.zone = @ + 1 ]

\* CLIENT_OBJECT_UPDATE_FIELD, begun once the update before it has run its
\* course
UpdateField(c, do_id, field_id, field_args) ==
    /\ messages = << >>
    /\ clients[c].connected /\ clients[c].authenticated
    /\ used.update < MaxUpdates
    /\ ClientStep("update_field", c, Client_handle_object_update_field(CA, c, do_id, field_id, field_args))
    /\ used' = [ used EXCEPT !.update = @ + 1 ]

\* the task Client._handle_interest_timeout
InterestTimeout(c) ==
    /\ clients[c].interest_timeout_task
    /\ LET a == handle_interest_timeout(CA, c)
       IN /\ ClusterMD(Feed(MD, CAConn, a.out))
          /\ clients' = a.clients
          /\ client_channels' = a.channel2handlers
          /\ step' = Step("interest_timeout", c, clients[c].pending_objects, a.out, a.sent)
    /\ UNCHANGED << shards, objects, used >>
    /\ Tracked(step')

\* datagrams of a peer that is not modelled (an AI server), as the Message
\* Director's participant for it handles them
EnvStep(op, datagrams) ==
    /\ Quiet
    /\ ClusterMD(Feed(MD, None, datagrams))
    /\ step' = Step(op, 0, << >>, datagrams, << >>)
    /\ UNCHANGED << shards, objects, clients, client_channels, used >>
    /\ Tracked(step')

\* an AI server starts: it adds its shard and generates its district object
StartShard(shard) ==
    /\ shard \notin DOMAIN shards
    /\ DistrictOf(shard) \notin DOMAIN objects \cup track.deleted
    /\ EnvStep("start_shard",
               << RoutedDatagram(STATESERVER_CHANNEL, shard, STATESERVER_ADD_SHARD,
                                 << DistrictOf(shard) >>),
                  RoutedDatagram(STATESERVER_CHANNEL, shard,
                                 STATESERVER_OBJECT_GENERATE_WITH_REQUIRED,
                                 << DistrictOf(shard), 0, 0, DistributedToon + 1 >>
                                     \o [ i \in 1..Len(RequiredFieldsOf) |-> 0 ]) >>)

\* an AI server generates one of its objects into a zone of its district
GenerateObject(shard, do_id, zone_id) ==
    /\ shard \in DOMAIN shards
    /\ do_id \notin DOMAIN objects \cup track.deleted
    /\ EnvStep("generate",
               << RoutedDatagram(STATESERVER_CHANNEL, shard,
                                 STATESERVER_OBJECT_GENERATE_WITH_REQUIRED,
                                 << do_id, DistrictOf(shard), zone_id, DistributedToon + 2 >>
                                     \o [ i \in 1..Len(RequiredFieldsOf) |-> 0 ]) >>)

\* an AI server generates an object under an id that an object already has
Regenerate(shard, do_id, zone_id, has_other) ==
    /\ shard \in DOMAIN shards
    /\ do_id \in DOMAIN objects
    /\ EnvStep("regenerate",
               << RoutedDatagram(STATESERVER_CHANNEL, shard,
                                 IF has_other THEN STATESERVER_OBJECT_GENERATE_WITH_REQUIRED_OTHER
                                 ELSE STATESERVER_OBJECT_GENERATE_WITH_REQUIRED,
                                 << do_id, DistrictOf(shard), zone_id, DistributedToon + 2 >>
                                     \o [ i \in 1..Len(RequiredFieldsOf) |-> 7 ]
                                     \o (IF has_other THEN << 0 >> ELSE << >>)) >>)

\* an AI server closes: its shard is removed
StopShard(shard) ==
    /\ shard \in DOMAIN shards
    /\ EnvStep("stop_shard",
               << RoutedDatagram(STATESERVER_CHANNEL, shard, STATESERVER_REMOVE_SHARD, << >>) >>)

\* CLIENT_GET_SHARD_LIST
GetShardList(c) ==
    /\ Quiet
    /\ clients[c].connected /\ clients[c].authenticated
    /\ ClientStep("get_shard_list", c, Client_handle_get_shard_list(CA, c))
    /\ UNCHANGED used

\* an AI server deletes an object
DeleteObject(shard, do_id) ==
    /\ shard \in DOMAIN shards
    /\ do_id \in DOMAIN objects
    /\ EnvStep("delete",
               << RoutedDatagram(do_id, shard, STATESERVER_OBJECT_DELETE_RAM, << do_id >>) >>)

\* the Message Director's flush of the oldest message of its queue, and the
\* recipient's handling of what it was written
Routed == flush(<< Head(messages) >>)

Popped == [ MD EXCEPT !.messages = Tail(@), !.wire = Tail(@) ]

DeliverSS ==
    /\ messages # << >>
    /\ Routed # << >> /\ Routed[1].channel = SSConn
    /\ LET s == StateServer_handle_datagram(SS, Routed[1].dg)
       IN /\ ClusterMD(Feed(Popped, SSConn, s.out))
          /\ shards' = s.shards
          /\ objects' = s.objects
          /\ step' = Step("ss", 0, Routed[1].dg, s.out, << >>)
    /\ UNCHANGED << clients, client_channels, used >>
    /\ Tracked(step')

DeliverCA ==
    /\ messages # << >>
    /\ Routed # << >> /\ Routed[1].channel = CAConn
    /\ LET a == ClientAgent_handle_datagram(CA, Routed[1].dg)
       IN /\ ClusterMD(Feed(Popped, CAConn, a.out))
          /\ clients' = a.clients
          /\ client_channels' = a.channel2handlers
          /\ step' = Step("ca", 0, Routed[1].dg, a.out, a.sent)
    /\ UNCHANGED << shards, objects, used >>
    /\ Tracked(step')

\* no participant holds the channel: the flush drops the message
Drop ==
    /\ messages # << >>
    /\ Routed = << >>
    /\ ClusterMD(Popped)
    /\ step' = Step("drop", 0, wire[1], << >>, << >>)
    /\ UNCHANGED << shards, objects, clients, client_channels, used >>
    /\ Tracked(step')

\* two clients in the district of one AI server
ClusterShard == CHOOSE shard \in ShardChannels : \A other \in ShardChannels : shard <= other

ClusterNext ==
    \/ StartShard(ClusterShard)
    \/ \E c \in ClientIds : SetAvatar(c)
    \/ \E c \in ClientIds : ActivateAvatar(c)
    \/ \E c \in ClientIds : SetShard(c, ClusterShard)
    \/ \E c \in ClientIds, zone_id \in Zones : SetZone(c, zone_id)
    \/ \E c \in ClientIds : InterestTimeout(c)
    \/ \E do_id \in AIObjects, zone_id \in Zones : GenerateObject(ClusterShard, do_id, zone_id)
    \/ \E do_id \in AIObjects \cup { DistrictOf(ClusterShard) } : DeleteObject(ClusterShard, do_id)
    \/ DeliverSS
    \/ DeliverCA
    \/ Drop

SpecCluster == InitCluster /\ [][ClusterNext]_vars

BroadcastFields == { field \in DOMAIN DCFields : DCFields[field].broadcast }

\* two clients in one district, one of them updating a broadcast field of an
\* object
UpdateNext ==
    \/ StartShard(ClusterShard)
    \/ \E c \in ClientIds : SetAvatar(c)
    \/ \E c \in ClientIds : ActivateAvatar(c)
    \/ \E c \in ClientIds : SetShard(c, ClusterShard)
    \/ \E c \in ClientIds, zone_id \in Zones : SetZone(c, zone_id)
    \/ \E c \in ClientIds, do_id \in DOMAIN objects, field_id \in BroadcastFields :
           UpdateField(c, do_id, field_id, << 7 >>)
    \/ \E c \in ClientIds : InterestTimeout(c)
    \/ DeliverSS
    \/ DeliverCA
    \/ Drop

SpecUpdate == InitCluster /\ [][UpdateNext]_vars

\* two clients in one district, neither changing zone, one of them updating
\* any field of an object, a field the class does not have included
GateNext ==
    \/ StartShard(ClusterShard)
    \/ \E c \in ClientIds : SetAvatar(c)
    \/ \E c \in ClientIds : ActivateAvatar(c)
    \/ \E c \in ClientIds : SetShard(c, ClusterShard)
    \/ \E c \in ClientIds, do_id \in DOMAIN objects, field_id \in 1..(Len(DCFields) + 1),
          field_args \in FieldArgs :
           UpdateField(c, do_id, field_id, field_args)
    \/ DeliverSS
    \/ DeliverCA
    \/ Drop

SpecGate == InitCluster /\ [][GateNext]_vars

\* one client that changes district; alone in its districts it never awaits
\* an object, so its interest timeout is never scheduled
Switcher == CHOOSE c \in ClientIds : \A d \in ClientIds : c <= d

SwitchNext ==
    \/ \E shard \in ShardChannels : StartShard(shard)
    \/ SetAvatar(Switcher)
    \/ ActivateAvatar(Switcher)
    \/ \E shard \in ShardChannels : SetShard(Switcher, shard)
    \/ \E zone_id \in Zones : SetZone(Switcher, zone_id)
    \/ DeliverSS
    \/ DeliverCA
    \/ Drop

SpecSwitch == InitCluster /\ [][SwitchNext]_vars

\* two clients in one district while an AI server generates objects, under
\* ids that are free and under ids that are taken
GenerateNext ==
    \/ StartShard(ClusterShard)
    \/ \E c \in ClientIds : SetAvatar(c)
    \/ \E c \in ClientIds : ActivateAvatar(c)
    \/ \E c \in ClientIds : SetShard(c, ClusterShard)
    \/ \E do_id \in AIObjects, zone_id \in Zones : GenerateObject(ClusterShard, do_id, zone_id)
    \/ \E do_id \in DOMAIN objects, zone_id \in Zones, has_other \in BOOLEAN :
           Regenerate(ClusterShard, do_id, zone_id, has_other)
    \/ DeliverSS
    \/ DeliverCA
    \/ Drop

SpecGenerate == InitCluster /\ [][GenerateNext]_vars

\* two clients and one AI server that starts, generates an object and closes
TeardownNext ==
    \/ StartShard(ClusterShard)
    \/ \E c \in ClientIds : SetAvatar(c)
    \/ \E c \in ClientIds : ActivateAvatar(c)
    \/ \E c \in ClientIds : SetShard(c, ClusterShard)
    \/ \E c \in ClientIds : GetShardList(c)
    \/ \E do_id \in AIObjects, zone_id \in Zones : GenerateObject(ClusterShard, do_id, zone_id)
    \/ StopShard(ClusterShard)
    \/ DeliverSS
    \/ DeliverCA
    \/ Drop

SpecTeardown == InitCluster /\ [][TeardownNext]_vars

-----------------------------------------------------------------------------
(* The cluster from the moment its clients connect, before they log in.     *)

\* the Client Agent once every client has connected: Client.setup registers
\* the allocated channel
RECURSIVE Connected(_, _)
Connected(a, cs) ==
    IF cs = << >> THEN a
    ELSE Connected(Client_register_for_channel(
                       [ a EXCEPT !.clients[Head(cs)] = NewClient(AllocatedChannel(Head(cs))) ],
                       Head(cs), AllocatedChannel(Head(cs))),
                   Tail(cs))

ConnectedCA ==
    Connected([ clients |-> [ c \in ClientIds |-> NewClient(AllocatedChannel(c)) ],
                channel2handlers |-> [ ch \in ClusterChannels |-> None ],
                out |-> << >>, sent |-> << >> ],
              SortedKeys(ClientIds))

ConnectedMD ==
    Feed(Participant_handle_datagram(
             [ participants |-> [ ch \in ClusterChannels |-> None ],
               channel2handlers |-> [ ch \in ClusterChannels |-> None ],
               post_messages |-> [ ch \in ClusterChannels |-> << >> ],
               messages |-> << >>, wire |-> << >>, events |-> << >> ],
             SSConn, ControlDatagram(STATESERVER_CHANNEL, CONTROL_SET_CHANNEL, << >>)),
         CAConn, ConnectedCA.out)

InitConnected ==
    /\ conn = [ p \in Conns |-> "open" ]
    /\ participants = ConnectedMD.participants
    /\ channel2handlers = ConnectedMD.channel2handlers
    /\ post_messages = ConnectedMD.post_messages
    /\ messages = << >>
    /\ wire = << >>
    /\ last = Op("init", None, None, << >>)
    /\ lastOp = [ c \in Channels |-> "none" ]
    /\ shards = EmptyDict
    /\ objects = EmptyDict
    /\ clients = ConnectedCA.clients
    /\ client_channels = ConnectedCA.channel2handlers
    /\ step = Step("init", 0, << >>, << >>, << >>)
    /\ used = NoneUsed
    /\ track = NoTrack
    /\ database = InitDatabase
    /\ agent = NoAgent

\* the messages a client sends, each with the fields its handler reads
ClientMessages(c) ==
    { << CLIENT_HEARTBEAT >>, << CLIENT_LOGIN_2, AccountOf(c) >>, << CLIENT_DISCONNECT >>,
      << CLIENT_GET_SHARD_LIST >>, << CLIENT_SET_AVATAR, AvatarOf(c) >>,
      << CLIENT_REMOVE_FRIEND >>, << CLIENT_SET_SHARD, ClusterShard >>,
      << CLIENT_SET_ZONE, 2 >>, << CLIENT_OBJECT_UPDATE_FIELD, AvatarOf(c), 1, 7 >>,
      << CLIENT_SET_ZONE + 1000 >> }

\* what a client that has logged in asks, and when: it logs in once, chooses
\* its avatar once and moves once it owns it
CanAsk(c, message_type) ==
    CASE message_type = CLIENT_LOGIN_2 -> FALSE
      [] message_type = CLIENT_SET_AVATAR ->
             /\ clients[c].activating = 0
             /\ get_avatar_id_from_connection_channel(clients[c].channel) = 0
      [] message_type = CLIENT_SET_SHARD ->
             clients[c].owned_objects # << >> /\ used.shard < MaxShardChanges
      [] message_type = CLIENT_SET_ZONE ->
             clients[c].owned_objects # << >> /\ used.zone < MaxZoneChanges
      [] message_type = CLIENT_OBJECT_UPDATE_FIELD -> used.update < MaxUpdates
      [] OTHER -> TRUE

\* a message of client c arrives at its handler
ClientMessage(c, message) ==
    /\ Quiet
    /\ clients[c].connected
    /\ clients[c].authenticated => CanAsk(c, message[1])
    /\ LET a == Client_handle_datagram(CA, c, message[1], Tail(message))
       IN /\ ClusterMD(Feed(MD, CAConn, a.out))
          /\ clients' = a.clients
          /\ client_channels' = a.channel2handlers
          /\ step' = Step("client_message", c, message, a.out, a.sent)
          /\ used' = IF ~clients[c].authenticated THEN used
                     ELSE [ used EXCEPT
                              !.shard = IF message[1] = CLIENT_SET_SHARD THEN @ + 1 ELSE @,
                              !.zone = IF message[1] = CLIENT_SET_ZONE THEN @ + 1 ELSE @,
                              !.update = IF message[1] = CLIENT_OBJECT_UPDATE_FIELD THEN @ + 1 ELSE @ ]
    /\ UNCHANGED << shards, objects >>
    /\ Tracked(step')

\* two clients that connect, log in or not, and send every kind of message
LoginNext ==
    \/ StartShard(ClusterShard)
    \/ \E c \in ClientIds : \E message \in ClientMessages(c) : ClientMessage(c, message)
    \/ \E c \in ClientIds : ActivateAvatar(c)
    \/ DeliverSS
    \/ DeliverCA
    \/ Drop

SpecLogin == InitConnected /\ [][LoginNext]_vars

-----------------------------------------------------------------------------
(* The cluster with the quiet zone, a playground and two zones of one of    *)
(* its streets.                                                             *)

StreetZones == { OTP_ZONE_ID_OLD_QUIET_ZONE, ToontownCentral, SillyStreet + 1, SillyStreet + 2 }

\* the zone changes of the two clients together
MaxStreetChanges == 3

\* CLIENT_SET_ZONE to a zone of the street world
SetStreetZone(c, zone_id) ==
    /\ Quiet
    /\ clients[c].connected /\ clients[c].authenticated
    /\ clients[c].owned_objects # << >>
    /\ used.zone < MaxStreetChanges
    /\ ClientStep("set_zone", c, Client_handle_set_zone(CA, c, zone_id))
    /\ used' = [ used EXCEPT !.zone = @ + 1 ]

StreetNext ==
    \/ StartShard(ClusterShard)
    \/ \E c \in ClientIds : SetAvatar(c)
    \/ \E c \in ClientIds : ActivateAvatar(c)
    \/ \E c \in ClientIds : SetShard(c, ClusterShard)
    \/ \E c \in ClientIds, zone_id \in StreetZones : SetStreetZone(c, zone_id)
    \/ \E c \in ClientIds : InterestTimeout(c)
    \/ DeliverSS
    \/ DeliverCA
    \/ Drop

SpecStreet == InitCluster /\ [][StreetNext]_vars

-----------------------------------------------------------------------------
(* The cluster with an AI server that hands its object to a client.         *)

\* the AI server makes client c the owner of its object
SetOwner(shard, do_id, c) ==
    /\ shard \in DOMAIN shards
    /\ do_id \in DOMAIN objects
    /\ objects[do_id].owner_id = 0
    /\ clients[c].connected /\ clients[c].owned_objects # << >>
    /\ EnvStep("set_owner",
               << RoutedDatagram(do_id, shard, STATESERVER_OBJECT_SET_OWNER,
                                 << clients[c].channel >>) >>)

\* the AI server moves its object to another zone
MoveObject(shard, do_id, zone_id) ==
    /\ Quiet
    /\ shard \in DOMAIN shards
    /\ do_id \in DOMAIN objects
    /\ objects[do_id].zone_id # zone_id
    /\ used.zone < MaxZoneChanges
    /\ LET datagrams == << RoutedDatagram(do_id, shard, STATESERVER_OBJECT_SET_ZONE, << zone_id >>) >>
       IN /\ ClusterMD(Feed(MD, None, datagrams))
          /\ step' = Step("move", 0, << >>, datagrams, << >>)
    /\ used' = [ used EXCEPT !.zone = @ + 1 ]
    /\ UNCHANGED << shards, objects, clients, client_channels >>
    /\ Tracked(step')

OwnerNext ==
    \/ StartShard(ClusterShard)
    \/ \E c \in ClientIds : SetAvatar(c)
    \/ \E c \in ClientIds : ActivateAvatar(c)
    \/ \E c \in ClientIds : SetShard(c, ClusterShard)
    \/ \E c \in ClientIds, zone_id \in Zones : SetZone(c, zone_id)
    \/ \E c \in ClientIds : InterestTimeout(c)
    \/ \E do_id \in AIObjects, zone_id \in Zones : GenerateObject(ClusterShard, do_id, zone_id)
    \/ \E do_id \in AIObjects, c \in ClientIds : SetOwner(ClusterShard, do_id, c)
    \/ \E do_id \in AIObjects, zone_id \in Zones : MoveObject(ClusterShard, do_id, zone_id)
    \/ \E do_id \in AIObjects : DeleteObject(ClusterShard, do_id)
    \/ DeliverSS
    \/ DeliverCA
    \/ Drop

SpecOwner == InitCluster /\ [][OwnerNext]_vars

-----------------------------------------------------------------------------
(* The cluster with clients whose connections are lost.                     *)

\* the connection of client c is lost: the listener removes the handler,
\* which shuts it down
ClientDisconnect(c) ==
    /\ Quiet
    /\ clients[c].connected
    /\ ClientStep("disconnect", c, Client_shutdown(CA, c))
    /\ UNCHANGED used

DisconnectNext ==
    \/ StartShard(ClusterShard)
    \/ \E c \in ClientIds : SetAvatar(c)
    \/ \E c \in ClientIds : ActivateAvatar(c)
    \/ \E c \in ClientIds : SetShard(c, ClusterShard)
    \/ \E c \in ClientIds, zone_id \in Zones : SetZone(c, zone_id)
    \/ \E c \in ClientIds : InterestTimeout(c)
    \/ \E c \in ClientIds : ClientDisconnect(c)
    \/ DeliverSS
    \/ DeliverCA
    \/ Drop

SpecDisconnect == InitCluster /\ [][DisconnectNext]_vars
-----------------------------------------------------------------------------
(* The cluster with an AI server that relocates a client's avatar.          *)

\* the AI server of a district sets the location of an object
SetLocation(shard, do_id, parent_id, zone_id) ==
    /\ shard \in DOMAIN shards
    /\ do_id \in DOMAIN objects
    /\ used.zone < MaxZoneChanges
    /\ Quiet
    /\ LET datagrams == << RoutedDatagram(do_id, shard, STATESERVER_OBJECT_SET_LOCATION,
                                          << parent_id, zone_id >>) >>
       IN /\ ClusterMD(Feed(MD, None, datagrams))
          /\ step' = Step("set_location", 0, << >>, datagrams, << >>)
    /\ used' = [ used EXCEPT !.zone = @ + 1 ]
    /\ UNCHANGED << shards, objects, clients, client_channels >>
    /\ Tracked(step')

\* one client that changes zone and district while the AI servers of the
\* districts move its avatar from one district and zone to another
LocationNext ==
    \/ \E shard \in ShardChannels : StartShard(shard)
    \/ SetAvatar(Switcher)
    \/ ActivateAvatar(Switcher)
    \/ \E shard \in ShardChannels : SetShard(Switcher, shard)
    \/ \E zone_id \in Zones : SetZone(Switcher, zone_id)
    \/ \E shard \in ShardChannels, parent \in ShardChannels, zone_id \in Zones :
           SetLocation(shard, AvatarOf(Switcher), DistrictOf(parent), zone_id)
    \/ DeliverSS
    \/ DeliverCA
    \/ Drop

SpecLocation == InitCluster /\ [][LocationNext]_vars

\* the objects of the AI server a client may find together in one zone
ZoneObjects == AIObjects \cup { 6 }

\* one client that moves between the zones of a district in which the AI
\* server generates its objects
LeaveNext ==
    \/ StartShard(ClusterShard)
    \/ SetAvatar(Switcher)
    \/ ActivateAvatar(Switcher)
    \/ SetShard(Switcher, ClusterShard)
    \/ \E zone_id \in Zones : SetZone(Switcher, zone_id)
    \/ InterestTimeout(Switcher)
    \/ \E do_id \in ZoneObjects, zone_id \in Zones : GenerateObject(ClusterShard, do_id, zone_id)
    \/ DeliverSS
    \/ DeliverCA
    \/ Drop

SpecLeave == InitCluster /\ [][LeaveNext]_vars

-----------------------------------------------------------------------------
(* The cluster with two districts, one client staying in the first while    *)
(* the other moves on to the second.                                        *)

Mover == CHOOSE c \in ClientIds : c # Switcher

OtherShard == CHOOSE shard \in ShardChannels : shard # ClusterShard

\* CLIENT_SET_SHARD from a client whose avatar is in the first district: it
\* moves on to the second
MoveShard(c) ==
    /\ Quiet
    /\ clients[c].connected /\ clients[c].authenticated
    /\ clients[c].owned_objects # << >>
    /\ AvatarOf(c) \in DOMAIN objects
    /\ objects[AvatarOf(c)].parent_id = DistrictOf(ClusterShard)
    /\ OtherShard \in DOMAIN shards
    /\ ClientStep("set_shard", c, Client_handle_set_shard(CA, c, OtherShard))
    /\ UNCHANGED used

MigrateNext ==
    \/ \E shard \in ShardChannels : StartShard(shard)
    \/ \E c \in ClientIds : SetAvatar(c)
    \/ \E c \in ClientIds : ActivateAvatar(c)
    \/ \E c \in ClientIds : SetShard(c, ClusterShard)
    \/ \E c \in ClientIds : SetZone(c, 2)
    \/ MoveShard(Mover)
    \/ \E c \in ClientIds : InterestTimeout(c)
    \/ DeliverSS
    \/ DeliverCA
    \/ Drop

SpecMigrate == InitCluster /\ [][MigrateNext]_vars

-----------------------------------------------------------------------------
(* The Client Agent's operations and the Database Server behind them: the   *)
(* clients connect, log in, create and delete avatars, ask for an avatar's  *)
(* details and disconnect; the requests of the agent's database interface   *)
(* reach the server in the order they were sent, and its responses reach    *)
(* the client that holds the channel they are addressed to.                 *)

\* the channels of the agent's clients: those of the cluster and those of
\* the accounts the Database Server creates
OperationChannels ==
    ClusterChannels
        \cup { AccountChannel(account_id, 0) : account_id \in min_id..max_id }
        \cup { get_account_connection_channel(account_id) : account_id \in min_id..max_id }

\* the channels the agent's allocator hands out
AllocatedChannels == { AllocatedChannel(c) : c \in ClientIds }

\* the agent as its handlers find it
Network ==
    [ clients |-> clients, channel2handlers |-> client_channels, out |-> << >>, sent |-> << >>,
      channel2fsm |-> agent.channel2fsm, fsms |-> agent.fsms, context |-> agent.context,
      callbacks |-> agent.callbacks, dclasses |-> agent.dclasses, dbm |-> agent.dbm,
      requested |-> agent.requested, calls |-> << >>, closed |-> agent.closed,
      unexpected |-> agent.unexpected,
      outbox |-> agent.outbox, inbox |-> agent.inbox, running |-> agent.running ]

ToDatabase(dg) == dg[2] = DATABASE_CHANNEL

InitOperations ==
    /\ conn = [ p \in Conns |-> "open" ]
    /\ participants = [ ch \in OperationChannels |->
                          IF ch = STATESERVER_CHANNEL THEN SSConn ELSE None ]
    /\ channel2handlers = [ ch \in OperationChannels |->
                              IF ch = STATESERVER_CHANNEL THEN SSConn ELSE None ]
    /\ post_messages = [ ch \in OperationChannels |-> << >> ]
    /\ messages = << >>
    /\ wire = << >>
    /\ last = Op("init", None, None, << >>)
    /\ lastOp = [ c \in Channels |-> "none" ]
    /\ shards = EmptyDict
    /\ objects = EmptyDict
    /\ clients = [ c \in ClientIds |-> NoClient ]
    /\ client_channels = [ ch \in OperationChannels |-> None ]
    /\ step = Step("init", 0, << >>, << >>, << >>)
    /\ used = NoneUsed
    /\ track = NoTrack
    /\ database = InitDatabase
    /\ agent = NoAgent

\* a handler of the agent has run: n is the agent afterwards. What it wrote
\* for the Database Server waits for it; the rest the Message Director's
\* participant handles at once.
AgentStep(op, c, dg, n) ==
    LET s == Feed(MD, CAConn, SelectSeq(n.out, LAMBDA d : ~ToDatabase(d)))
    IN /\ participants' = s.participants
       /\ channel2handlers' = s.channel2handlers
       /\ post_messages' = s.post_messages
       /\ messages' = s.messages
       /\ wire' = s.wire
       /\ clients' = n.clients
       /\ client_channels' = n.channel2handlers
       /\ agent' = [ channel2fsm |-> n.channel2fsm, fsms |-> n.fsms, context |-> n.context,
                     callbacks |-> n.callbacks, dclasses |-> n.dclasses, dbm |-> n.dbm,
                     requested |-> n.requested, calls |-> n.calls, closed |-> n.closed,
                     unexpected |-> n.unexpected,
                     outbox |-> n.outbox \o SelectSeq(n.out, ToDatabase),
                     inbox |-> n.inbox, running |-> n.running ]
       /\ step' = Step(op, c, dg, n.out, n.sent)
       /\ UNCHANGED << conn, last, lastOp, shards, objects, used, track, database >>

\* the listener accepts a connection: Client.__init__ takes a channel of the
\* allocator that no client holds, and setup registers it
ClientConnect(c, channel) ==
    /\ agent.running
    /\ ~clients[c].connected /\ c \notin agent.closed
    /\ \A d \in ClientIds : clients[d].allocated_channel # channel
    /\ AgentStep("connect", c, << >>,
                 Client_register_for_channel([ Network EXCEPT !.clients[c] = NewClient(channel) ],
                                             c, channel))

\* a client that has connected begins an operation
Begins(c) ==
    /\ agent.running
    /\ clients[c].connected
    /\ Len(agent.fsms) < MaxRequests

\* CLIENT_LOGIN_2 with the server's version and hash
Login(c, play_token) ==
    /\ Begins(c)
    /\ ~clients[c].authenticated
    /\ AgentStep("login", c, << play_token >>,
                 handle_operation(Network,
                                  ClientOperation("LoadAccountFSM", c, play_token, 0, 0, 0)))

\* CLIENT_CREATE_AVATAR
CreateAvatar(c, index) ==
    /\ Begins(c)
    /\ clients[c].authenticated
    /\ AgentStep("create_avatar", c, << index >>,
                 handle_operation(Network,
                     ClientOperation("CreateAvatarFSM", c, 0,
                                     get_account_id_from_channel_code(clients[c].channel), 0, index)))

\* CLIENT_DELETE_AVATAR
DeleteAvatar(c, avatar_id) ==
    /\ Begins(c)
    /\ clients[c].authenticated
    /\ AgentStep("delete_avatar", c, << avatar_id >>,
                 handle_operation(Network,
                     ClientOperation("DeleteAvatarFSM", c, 0,
                                     get_account_id_from_channel_code(clients[c].channel),
                                     avatar_id, 0)))

\* CLIENT_GET_AVATAR_DETAILS
GetAvatarDetails(c, avatar_id) ==
    /\ Begins(c)
    /\ clients[c].authenticated
    /\ AgentStep("get_avatar_details", c, << avatar_id >>,
                 handle_operation(Network,
                     ClientOperation("GetAvatarDetailsFSM", c, 0, 0, avatar_id, 0)))

\* the connection of client c is lost
OperationDisconnect(c) ==
    /\ agent.running
    /\ clients[c].connected
    /\ AgentStep("disconnect", c, << >>,
                 shutdown([ Network EXCEPT !.closed = @ \cup {c} ], c))

\* the first request that waits reaches DatabaseServer.handle_datagram
OperationReceive ==
    /\ database.running
    /\ agent.outbox # << >>
    /\ Len(database.operations) < MaxOperations
    /\ database' = DatabaseServer_handle_datagram(database, Head(agent.outbox))
    /\ agent' = [ agent EXCEPT !.outbox = Tail(@) ]
    /\ step' = Step("receive", 0, Head(agent.outbox), << >>, << >>)
    /\ UNCHANGED << mdVars, shards, objects, clients, client_channels, used, track >>

\* the Database Server's flush task: its responses wait for the agent
OperationFlush ==
    /\ database.running
    /\ database.operations # << >>
    /\ LET r == flush_loop(database, << >>)
       IN  /\ database' = IF r.raised THEN Stopped(r.db) ELSE r.db
           /\ agent' = [ agent EXCEPT !.inbox = @ \o r.out ]
           /\ step' = Step("flush", IF r.raised THEN 1 ELSE 0, database.operations, r.out, << >>)
    /\ UNCHANGED << mdVars, shards, objects, clients, client_channels, used, track >>

\* the first response that waits reaches the client that holds its channel,
\* whose handle_internal_datagram hands it to the database interface; a
\* response to a channel no client holds is dropped
Response ==
    /\ agent.running
    /\ agent.inbox # << >>
    /\ LET dg == Head(agent.inbox)
           n == [ Network EXCEPT !.inbox = Tail(@) ]
           handler == IF dg[2] \in DOMAIN client_channels THEN client_channels[dg[2]] ELSE None
       IN AgentStep("response", IF handler = None THEN 0 ELSE handler, dg,
                    IF handler = None THEN n ELSE DatabaseInterface_handle_datagram(n, dg))

OperationsNext ==
    \/ \E c \in ClientIds, channel \in AllocatedChannels : ClientConnect(c, channel)
    \/ \E c \in ClientIds, play_token \in PlayTokens : Login(c, play_token)
    \/ \E c \in ClientIds, index \in { 1 } : CreateAvatar(c, index)
    \/ \E c \in ClientIds, avatar_id \in { 1, max_id } : DeleteAvatar(c, avatar_id)
    \/ \E c \in ClientIds, avatar_id \in min_id..max_id : GetAvatarDetails(c, avatar_id)
    \/ \E c \in ClientIds : OperationDisconnect(c)
    \/ OperationReceive
    \/ OperationFlush
    \/ Response

SpecOperations == InitOperations /\ [][OperationsNext]_vars

\* a response that no request of this run has caused reaches a client: a
\* failure for some context
UnexpectedResponse(c, message_type, ctx) ==
    /\ agent.running
    /\ clients[c].connected
    /\ agent.unexpected < MaxUnexpected
    /\ LET dg == RoutedDatagram(clients[c].channel, DATABASE_CHANNEL, message_type, << ctx, 0 >>)
       IN AgentStep("unexpected", c, dg,
                    DatabaseInterface_handle_datagram([ Network EXCEPT !.unexpected = @ + 1 ], dg))

InterfaceNext ==
    \/ \E c \in ClientIds, channel \in AllocatedChannels : ClientConnect(c, channel)
    \/ \E c \in ClientIds, play_token \in PlayTokens : Login(c, play_token)
    \/ \E c \in ClientIds : CreateAvatar(c, 1)
    \/ \E c \in ClientIds : DeleteAvatar(c, 1)
    \/ \E c \in ClientIds : GetAvatarDetails(c, max_id)
    \/ \E c \in ClientIds : OperationDisconnect(c)
    \/ OperationReceive
    \/ OperationFlush
    \/ Response
    \/ \E c \in ClientIds, ctx \in 1..MaxUnexpectedContext,
          message_type \in { DBSERVER_CREATE_OBJECT_RESP, DBSERVER_OBJECT_GET_ALL_RESP } :
            UnexpectedResponse(c, message_type, ctx)

SpecInterface == InitOperations /\ [][InterfaceNext]_vars

-----------------------------------------------------------------------------
(* Properties of the State Server and of the cluster.                      *)

IsLocationEntry(message_type) ==
    message_type \in { STATESERVER_OBJECT_ENTER_LOCATION_WITH_REQUIRED,
                       STATESERVER_OBJECT_ENTER_LOCATION_WITH_REQUIRED_OTHER }

\* C9: after the SET_ZONE of an owned object, no ENTER_LOCATION and no
\* OBJECT_DELETE_RAM the State Server emits for the object's transition comes
\* after an OBJECT_LOCATION_ACK it has emitted for that transition.
C9_AckAfterFanOut ==
    LET events == track.transition.events
    IN \A i, j \in 1..Len(events) :
           (i < j /\ events[i][1] = STATESERVER_OBJECT_LOCATION_ACK)
               => ~(IsLocationEntry(events[j][1]) \/ events[j][1] = STATESERVER_OBJECT_DELETE_RAM)

C10_DeletedUnseen ==
    messages = << >> =>
        \A do_id \in track.deleted, c \in ClientIds : ~has_seen_object(clients[c], do_id)

\* a field update of a client, as the State Server handled it in the last step
ClientUpdateHandled(st) ==
    /\ st.op = "ss"
    /\ st.dg[4] = STATESERVER_OBJECT_UPDATE_FIELD
    /\ st.dg[2] \in DOMAIN objects
    /\ ~has_shard(SS, st.dg[3])

\* C6: when the State Server handles a field update whose sender is not a
\* registered shard and emits a message for it or changes an object, the field
\* is clsend, or it is ownsend and the sender is the object's owner.
C6_ClientGate ==
    [][ (ClientUpdateHandled(step') /\ (step'.out # << >> \/ objects' # objects))
            => /\ Arg(step'.dg, 2) \in DOMAIN DCFields
               /\ \/ DCFields[Arg(step'.dg, 2)].clsend
                  \/ /\ DCFields[Arg(step'.dg, 2)].ownsend
                     /\ step'.dg[3] = objects[step'.dg[2]].owner_id ]_vars

C6_Witness ==
    /\ ClientUpdateHandled(step)
    /\ Arg(step.dg, 2) \in DOMAIN DCFields
    /\ DCFields[Arg(step.dg, 2)].ownsend
    /\ ~DCFields[Arg(step.dg, 2)].clsend
    /\ step.dg[3] = objects[step.dg[2]].owner_id
    /\ step.out # << >>

C7_NormalZone ==
    LET u == track.update
    IN (/\ messages = << >> /\ u.client # 0 /\ u.accepted /\ DCFields[Arg(u.dg, 2)].broadcast
        /\ u.zone # OTP_ZONE_ID_OLD_QUIET_ZONE)
           => /\ \A c \in u.interested \ { u.client } : u.resp[c] = 1
              /\ u.resp[u.client] = 0

IsGenerate(message_type) ==
    message_type \in { STATESERVER_OBJECT_GENERATE_WITH_REQUIRED,
                       STATESERVER_OBJECT_GENERATE_WITH_REQUIRED_OTHER }

\* C11: the State Server holds at most one state object for a doId (the
\* object stored under an id is the object of that id), and when it handles
\* an OBJECT_GENERATE for a doId that has a state object it sends nothing and
\* changes no object: class, owner, AI channel, location and stored fields of
\* the existing object stay as they were.
C11_GenerateExistingIgnored ==
    /\ [](\A do_id \in DOMAIN objects : objects[do_id].do_id = do_id)
    /\ [][ (/\ step'.op = "ss"
            /\ IsGenerate(step'.dg[4])
            /\ Arg(step'.dg, 1) \in DOMAIN objects)
               => (objects' = objects /\ step'.out = << >>) ]_vars

\* the State Server has just handled a generate for the id of an owned
\* object of another class, which is still there
C11_Witness ==
    /\ step.op = "ss"
    /\ IsGenerate(step.dg[4])
    /\ Arg(step.dg, 1) \in DOMAIN objects
    /\ objects[Arg(step.dg, 1)].dc_id # Arg(step.dg, 4)
    /\ objects[Arg(step.dg, 1)].owner_id # 0
    /\ step.out = << >>

\* the State Server handles the REMOVE_SHARD of a registered shard in the step
ShardRemoved(st) ==
    /\ st.op = "ss"
    /\ st.dg[4] = STATESERVER_REMOVE_SHARD
    /\ has_shard(SS, st.dg[3])

\* C12: once the State Server has handled the removal of shard X, no state
\* object whose ai_channel is X remains, and for every such object that had
\* an owner a CLIENTAGENT_DISCONNECT(SHARD_CLOSED) to that owner was written
\* before the object's removal was announced.
C12_ShardObjectsRemoved ==
    [][ ShardRemoved(step') =>
          LET X == step'.dg[3]
          IN /\ \A do_id \in DOMAIN objects' : objects'[do_id].ai_channel # X
             /\ \A do_id \in DOMAIN objects :
                    (objects[do_id].ai_channel = X /\ objects[do_id].owner_id # 0) =>
                        \E i \in 1..Len(step'.out) :
                            /\ step'.out[i] = RoutedDatagram(objects[do_id].owner_id,
                                                   STATESERVER_CHANNEL, CLIENTAGENT_DISCONNECT,
                                                   << CLIENT_DISCONNECT_SHARD_CLOSED, X >>)
                            /\ \A j \in 1..Len(step'.out) :
                                   (step'.out[j][3] = do_id) => i < j ]_vars

IsShardList(dg) == dg[2] # CONTROL_MESSAGE /\ dg[4] = STATESERVER_GET_SHARD_ALL_RESP

\* C13: no shard list the State Server sends names a shard that has been
\* torn down: neither the list broadcast to the remaining owned objects at
\* the end of the teardown nor a later GET_SHARD_ALL response.
C13_ListsOmitClosed ==
    step.op = "ss" =>
        \A i \in 1..Len(step.out) :
            IsShardList(step.out[i]) =>
                \A X \in ShardChannels \ DOMAIN shards : ~InList(X, Rest(step.out[i], 2))

\* the part of C12 about the owners: each owned object of the shard is
\* removed, its owner sent the disconnect first
C12_OwnersDisconnected ==
    [][ ShardRemoved(step') =>
          \A do_id \in DOMAIN objects :
              (objects[do_id].ai_channel = step'.dg[3] /\ objects[do_id].owner_id # 0) =>
                  /\ do_id \notin DOMAIN objects'
                  /\ \E i \in 1..Len(step'.out) :
                         /\ step'.out[i] = RoutedDatagram(objects[do_id].owner_id,
                                                STATESERVER_CHANNEL, CLIENTAGENT_DISCONNECT,
                                                << CLIENT_DISCONNECT_SHARD_CLOSED, step'.dg[3] >>)
                         /\ \A j \in 1..Len(step'.out) : (step'.out[j][3] = do_id) => i < j ]_vars

\* the part of C13 about the replies to GET_SHARD_ALL
C13_RepliesOmitClosed ==
    (step.op = "ss" /\ step.dg[4] = STATESERVER_GET_SHARD_ALL) =>
        /\ Len(step.out) = 1
        /\ IsShardList(step.out[1])
        /\ \A X \in ShardChannels \ DOMAIN shards : ~InList(X, Rest(step.out[1], 2))

-----------------------------------------------------------------------------
(* Properties of the Client Agent.                                          *)

ZonesOf(l) == { l[i] : i \in 1..Len(l) }

\* the zones of the branch of a street zone: whatever the branch's visibility
\* data, the zones visible from one of its zones are among these
BranchZones(zone_id) ==
    ZoneUtil_getBranchZone(zone_id) .. (ZoneUtil_getBranchZone(zone_id) + BranchSize - 1)

\* interest is the effective interest set of zone_id for some visibility data
EffectiveInterest(interest, zone_id) ==
    IF ~get_in_street_branch(zone_id)
    THEN interest = { zone_id, OTP_ZONE_ID_OLD_QUIET_ZONE }
    ELSE /\ { zone_id, ZoneUtil_getBranchZone(zone_id), OTP_ZONE_ID_OLD_QUIET_ZONE } \subseteq interest
         /\ interest \subseteq BranchZones(zone_id) \cup { OTP_ZONE_ID_OLD_QUIET_ZONE }

\* C15: when the interest handshake of a CLIENT_SET_ZONE to z_new completes,
\* the connection's interest zones are the effective interest set of z_new:
\* { z_new, quiet zone } for a playground zone; for a street zone, zones of
\* z_new's branch only, z_new and the branch zone among them, and the quiet zone.
C15_InterestIsEffective ==
    [][ \A c \in ClientIds :
          (/\ clients[c].generate_cb # << >>
           /\ clients'[c].generate_cb = << >>
           /\ clients'[c].connected)
              => EffectiveInterest(ZonesOf(clients'[c].interest_zones), clients[c].generate_cb[4]) ]_vars

\* the same for the moves that end in a playground zone
C15_PlaygroundInterest ==
    [][ \A c \in ClientIds :
          (/\ clients[c].generate_cb # << >>
           /\ clients'[c].generate_cb = << >>
           /\ clients'[c].connected
           /\ ~get_in_street_branch(clients[c].generate_cb[4]))
              => EffectiveInterest(ZonesOf(clients'[c].interest_zones), clients[c].generate_cb[4]) ]_vars

\* the zone client c's avatar is in
AvatarZone(c) ==
    LET avatar_id == get_avatar_id_from_connection_channel(clients[c].channel)
    IN IF avatar_id \in DOMAIN objects THEN objects[avatar_id].zone_id ELSE 0

\* C16: when the interest timeout fires while announced objects are still
\* pending, the pending list is empty afterwards, no handshake is left open,
\* and the client has by then been sent the reply that ends the change to the
\* zone of the handshake (the zone its avatar is in, when none is open):
\* DONE_SET_ZONE_RESP(zone), or GET_STATE_RESP(zone) for the quiet zone.
C16_TimeoutCompletes ==
    [][ (step'.op = "interest_timeout" /\ clients[step'.client].pending_objects # << >>)
            => LET c == step'.client
                   reply == track'.replied[c]
               IN /\ clients'[c].pending_objects = << >>
                  /\ clients'[c].generate_cb = << >>
                  /\ ~clients'[c].interest_timeout_task
                  /\ reply.zone = IF clients[c].generate_cb # << >>
                                  THEN clients[c].generate_cb[4] ELSE AvatarZone(c)
                  /\ \/ reply.type = CLIENT_DONE_SET_ZONE_RESP
                     \/ /\ reply.type = CLIENT_GET_STATE_RESP
                        /\ reply.zone = OTP_ZONE_ID_OLD_QUIET_ZONE ]_vars

\* the timeout has fired with an object pending and has sent the reply
C16_Witness ==
    /\ step.op = "interest_timeout"
    /\ step.dg # << >>
    /\ step.sent # << >>
    /\ step.sent[1].message = << CLIENT_DONE_SET_ZONE_RESP, AvatarZone(step.client) >>
    /\ clients[step.client].pending_objects = << >>

\* the same on a first entry into a zone, where the reply was sent at the
\* announcement
C16_FirstEntry ==
    /\ step.op = "interest_timeout"
    /\ step.dg # << >>
    /\ step.sent = << >>

\* the same in a street branch
C16_InBranch ==
    /\ step.op = "interest_timeout"
    /\ step.dg # << >>
    /\ clients[step.client].in_street_branch

\* C17: the Client Agent never writes CLIENT_OBJECT_DELETE_RESP to a client
\* for an object the client owns.
C17_NoDeleteOfOwned ==
    \A i \in 1..Len(step.sent) :
        step.sent[i].message[1] = CLIENT_OBJECT_DELETE_RESP
            => ~InList(step.sent[i].message[2], clients[step.sent[i].client].owned_objects)

\* an object a client has seen and now owns has left the client's interest,
\* and the client has been told of the move
C17_Witness ==
    /\ step.op = "ca"
    /\ step.dg[4] = STATESERVER_OBJECT_CHANGING_LOCATION
    /\ \E c \in ClientIds :
           /\ client_channels[step.dg[2]] = c
           /\ has_seen_object(clients[c], Arg(step.dg, 1))
           /\ InList(Arg(step.dg, 1), clients[c].owned_objects)
           /\ ~has_interest_zone(clients[c], Arg(step.dg, 3))

\* the client whose handler holds the channel a datagram is addressed to
Receiver(dg) == client_channels[dg[2]]

\* C18: an OBJECT_UPDATE_FIELD that reaches a client's handler from inside the
\* cluster is written to the client as CLIENT_OBJECT_UPDATE_FIELD_RESP, with
\* its object, field and values, if the object is then in the client's seen,
\* pending or owned objects; otherwise nothing is written to the client.
C18_UpdateIffKnown ==
    [][ (/\ step'.op = "ca"
         /\ step'.dg[4] = STATESERVER_OBJECT_UPDATE_FIELD
         /\ Receiver(step'.dg) # None)
            => LET c == Receiver(step'.dg)
                   do_id == Arg(step'.dg, 1)
               IN IF \/ has_seen_object(clients[c], do_id)
                     \/ InList(do_id, clients[c].pending_objects)
                     \/ InList(do_id, clients[c].owned_objects)
                  THEN step'.sent = << [ client |-> c,
                                         message |-> << CLIENT_OBJECT_UPDATE_FIELD_RESP, do_id,
                                                        Arg(step'.dg, 2) >> \o Rest(step'.dg, 3) ] >>
                  ELSE step'.sent = << >> ]_vars

\* an update has reached a client that does not know the object, and nothing
\* was written
C18_Witness ==
    /\ step.op = "ca"
    /\ step.dg[4] = STATESERVER_OBJECT_UPDATE_FIELD
    /\ Receiver(step.dg) # None
    /\ step.sent = << >>
    /\ ~Knows(Receiver(step.dg), Arg(step.dg, 1))

\* an update has reached a client that awaits the object's create, and was
\* written to it
C18_Pending ==
    /\ step.op = "ca"
    /\ step.dg[4] = STATESERVER_OBJECT_UPDATE_FIELD
    /\ Receiver(step.dg) # None
    /\ step.sent # << >>
    /\ InList(Arg(step.dg, 1), clients[Receiver(step.dg)].pending_objects)

\* C19: once a client has chosen its avatar and the generate has been sent,
\* the loss of its connection leads to the removal of the avatar's object
\* from the State Server: when the client is gone, its activation has run
\* and nothing is left in the Message Director's queue, the object is gone.
C19_AvatarRemoved ==
    \A c \in ClientIds :
        (/\ ~clients[c].connected
         /\ clients[c].activating = 0
         /\ messages = << >>)
            => AvatarOf(c) \notin DOMAIN objects

\* the avatar's delete is in a datagram
IsAvatarDelete(dg, avatar_id) ==
    /\ dg[2] = avatar_id
    /\ dg[4] = STATESERVER_OBJECT_DELETE_RAM
    /\ Arg(dg, 1) = avatar_id

\* the same for a connection lost after the activation has run: the Message
\* Director queues the avatar's OBJECT_DELETE_RAM in the step of the loss
C19_ActivatedAvatarRemoved ==
    [][ (/\ step'.op = "disconnect"
         /\ clients[step'.client].activating = 0
         /\ clients[step'.client].owned_objects # << >>)
            => \E i \in 1..Len(wire') : IsAvatarDelete(wire'[i], AvatarOf(step'.client)) ]_vars

\* C20: after the cleanup of a lost connection no channel maps to the
\* client's handler in the Client Agent, and the agent has asked the Message
\* Director to remove every channel that was registered for the client.
C20_AllChannelsUnsubscribed ==
    \A c \in ClientIds :
        ~clients[c].connected => \A channel \in DOMAIN client_channels : client_channels[channel] # c

\* the channels shutdown does unregister: the one the client sends under and
\* the one it was allocated
C20_CurrentChannelsUnsubscribed ==
    [][ step'.op = "disconnect"
            => LET self == clients[step'.client]
               IN \A channel \in { self.channel, self.allocated_channel } \ { 0 } :
                      /\ client_channels'[channel] # step'.client
                      /\ \E i \in 1..Len(step'.out) :
                             step'.out[i] = ControlDatagram(channel, CONTROL_REMOVE_CHANNEL, << >>) ]_vars
-----------------------------------------------------------------------------
(* The Database Server alone: its peers send it requests, its task flushes  *)
(* the queue, and it is shut down or stops, and is set up again over the    *)
(* directory it left.                                                       *)

\* the channels requests come from
Requesters == { AllocatedChannel(c) : c \in ClientIds }

\* the fields a request names: none or one
RequestFields ==
    {NoFields} \cup { [ NoFields EXCEPT ![field] = value ] : field \in DBFields, value \in Values }

DatabaseIdle == UNCHANGED << mdVars, shards, objects, clients, client_channels, used, track, agent >>

\* a datagram reaches DatabaseServer.handle_datagram
DatabaseReceive(op, dg) ==
    /\ database.running
    /\ Len(database.operations) < MaxOperations
    /\ database' = DatabaseServer_handle_datagram(database, dg)
    /\ step' = Step(op, 0, dg, << >>, << >>)
    /\ DatabaseIdle

\* a peer creates an object of a class the dc file has, or of one it has not
Create(requesters, request_fields) ==
    \E channel_id \in requesters, ctx \in Contexts, dclass \in DBClasses \cup {3},
       fields \in request_fields :
        DatabaseReceive("create_object", create_object(channel_id, ctx, dclass, fields))

CreateObject == Create(Requesters, RequestFields)

\* a peer queries an object: id 0, one of the store or one out of it
QueryObject ==
    \E channel_id \in Requesters, ctx \in Contexts, do_id \in 0..max_id :
        DatabaseReceive("query_object", query_object(channel_id, ctx, do_id))

\* a peer sets one field of an object of the store, with or without the
\* value it expects the field to have
UpdateObject ==
    \E channel_id \in Requesters, ctx \in Contexts, do_id \in min_id..max_id,
       field \in DBFields, new \in Values, old \in {0} \cup Values :
        DatabaseReceive("update_object", update_object(channel_id, ctx, do_id, field, new, old))

\* the flush task runs; step.client says whether an operation raised
DatabaseFlush ==
    /\ database.running
    /\ database.operations # << >>
    /\ LET r == flush_loop(database, << >>)
       IN  /\ database' = IF r.raised THEN Stopped(r.db) ELSE r.db
           /\ step' = Step("flush", IF r.raised THEN 1 ELSE 0, database.operations, r.out, << >>)
    /\ DatabaseIdle

\* main() returns from task_mgr.run() and shuts the components down
DatabaseShutdown ==
    /\ database.running
    /\ database' = DatabaseServer_shutdown(database)
    /\ step' = Step("shutdown", 0, << >>, << >>, << >>)
    /\ DatabaseIdle

\* the server starts again over its directory
DatabaseSetup ==
    /\ ~database.running
    /\ database' = [ DatabaseInterface_setup(database) EXCEPT !.since = 0 ]
    /\ step' = Step("setup", 0, << >>, << >>, << >>)
    /\ DatabaseIdle

DatabaseNext ==
    \/ CreateObject
    \/ QueryObject
    \/ UpdateObject
    \/ DatabaseFlush
    \/ DatabaseShutdown
    \/ DatabaseSetup

SpecDatabase == Init /\ [][DatabaseNext]_vars

\* the server while one peer creates objects with no field given, across
\* shutdowns and failures
RestartNext ==
    \/ Create({ AllocatedChannel(1) }, { NoFields })
    \/ DatabaseFlush
    \/ DatabaseShutdown
    \/ DatabaseSetup

SpecRestart == Init /\ [][RestartNext]_vars

-----------------------------------------------------------------------------
(* Properties of the Database Server.                                       *)

\* the one operation of a flush, where the flush had one
Flushed(st) == st.op = "flush" /\ Len(st.dg) = 1

\* an object of the store as a create leaves it: a class and fields
Stored(file) == file.exists /\ file.dclass \in DBClasses /\ file.fields # NoFields

\* a flush of one SET_FIELD_IF_EQUALS for an object of the store, sent as
\* update_object sends it: context, id, field, old value, new value
IfEquals(st) ==
    /\ Flushed(st)
    /\ st.dg[1].dg[4] = DBSERVER_OBJECT_SET_FIELD_IF_EQUALS
    /\ Stored(database.disk[Arg(st.dg[1].dg, 2)])

\* C21: OBJECT_SET_FIELD_IF_EQUALS is a compare-and-set. Where the stored
\* value of the field differs from the old value of the request, the
\* directory is left as it was and the one datagram sent is the response to
\* the requester with the request's context, success 0 and the field; the
\* field changes only where the stored value is the old value, and then to
\* the new one.
C21_CompareAndSet ==
    [][ IfEquals(step') =>
          LET dg == step'.dg[1].dg
              ctx == Arg(dg, 1)
              do_id == Arg(dg, 2)
              field == Arg(dg, 3)
              old == Arg(dg, 4)
              new == Arg(dg, 5)
              stored == database.disk[do_id].fields[field]
          IN  /\ (stored # old) =>
                    /\ database'.disk = database.disk
                    /\ Len(step'.out) = 1
                    /\ step'.out[1][2] = dg[3]
                    /\ step'.out[1][4] = DBSERVER_OBJECT_SET_FIELD_IF_EQUALS_RESP
                    /\ SubSeq(step'.out[1], 5, 8) = << ctx, 0, 1, field >>
              /\ (database'.disk # database.disk) =>
                    /\ stored = old
                    /\ database'.disk = [ database.disk EXCEPT ![do_id].fields[field] = new ] ]_vars

\* C21, what the server does do with the request: it opens the file named by
\* the context, writes the old value where there is such an object, and sends
\* no response, unless the file has no class: then the response says failure,
\* names no field and carries the id where the context goes
C21_WritesOldUnderContext ==
    [][ IfEquals(step') =>
          LET dg == step'.dg[1].dg
              ctx == Arg(dg, 1)
              field == Arg(dg, 3)
              old == Arg(dg, 4)
          IN  /\ IF database.disk[ctx].exists /\ database.disk[ctx].dclass \notin DBClasses
                 THEN step'.out = << RoutedDatagram(dg[3], DATABASE_CHANNEL,
                                         DBSERVER_OBJECT_SET_FIELD_IF_EQUALS_RESP,
                                         << Arg(dg, 2), 0, 0 >>) >>
                 ELSE step'.out = << >> /\ step'.client = 1
              /\ database'.disk = IF Stored(database.disk[ctx])
                                  THEN [ database.disk EXCEPT ![ctx].fields[field] = old ]
                                  ELSE database.disk ]_vars

\* a SET_FIELD_IF_EQUALS whose old value is not the stored one has been flushed
C21_Witness ==
    /\ step.op = "flush"
    /\ Len(step.dg) = 1
    /\ step.dg[1].dg[4] = DBSERVER_OBJECT_SET_FIELD_IF_EQUALS
    /\ Stored(database.disk[Arg(step.dg[1].dg, 2)])
    /\ Arg(step.dg[1].dg, 1) # Arg(step.dg[1].dg, 2)
    /\ database.disk[Arg(step.dg[1].dg, 2)].fields[Arg(step.dg[1].dg, 3)] # Arg(step.dg[1].dg, 4)

\* a flush of one CREATE_OBJECT or one OBJECT_GET_ALL
Requested(st) ==
    /\ Flushed(st)
    /\ st.dg[1].dg[4] \in { DBSERVER_CREATE_OBJECT, DBSERVER_OBJECT_GET_ALL }

\* the response a request expects
RespOf(message_type) ==
    IF message_type = DBSERVER_CREATE_OBJECT THEN DBSERVER_CREATE_OBJECT_RESP
    ELSE DBSERVER_OBJECT_GET_ALL_RESP

\* C22: every CREATE_OBJECT and every OBJECT_GET_ALL the server takes from
\* its queue is answered by exactly one datagram, sent to the requester, of
\* the request's response type and with the request's context.
C22_OneResponse ==
    [][ Requested(step') =>
          LET dg == step'.dg[1].dg
          IN  /\ Len(step'.out) = 1
              /\ step'.out[1][2] = dg[3]
              /\ step'.out[1][4] = RespOf(dg[4])
              /\ step'.out[1][5] = Arg(dg, 1) ]_vars

\* C22, the part that holds: an operation that does not raise is answered
\* once, with the context, and a failure among those has success 0
C22_AnsweredUnlessRaised ==
    [][ (Requested(step') /\ step'.client = 0) =>
          LET dg == step'.dg[1].dg
          IN  /\ Len(step'.out) = 1
              /\ step'.out[1][2] = dg[3]
              /\ step'.out[1][4] = RespOf(dg[4])
              /\ step'.out[1][5] = Arg(dg, 1)
              /\ (dg[4] = DBSERVER_OBJECT_GET_ALL /\ (Arg(dg, 2) = 0 \/ ~Stored(database.disk[Arg(dg, 2)])))
                     => step'.out[1][6] = 0 ]_vars

\* a CREATE_OBJECT of a class the dc file does not have has been flushed
C22_UnknownClass ==
    /\ Requested(step)
    /\ step.dg[1].dg[4] = DBSERVER_CREATE_OBJECT
    /\ Arg(step.dg[1].dg, 2) \notin DBClasses

\* the ids of the successful CREATE_OBJECT_RESPs among datagrams, in order
Returned(out) ==
    LET resps == SelectSeq(out, LAMBDA dg : dg[4] = DBSERVER_CREATE_OBJECT_RESP /\ dg[6] # 0)
    IN  [ i \in 1..Len(resps) |-> resps[i][6] ]

\* C23: no two successful CREATE_OBJECTs return the same id, restarts of the
\* server in between or not; the ids a flush returns are those it created,
\* and after a flush that created an object the 'next' of the tracker file is
\* the last id returned plus one.
C23_FreshIds ==
    /\ [](\A i, j \in 1..Len(database.created) :
              (i # j) => database.created[i] # database.created[j])
    /\ [][ (step'.op = "flush") =>
              /\ database'.created = database.created \o Returned(step'.out)
              /\ (Returned(step'.out) # << >>) =>
                     database'.next = Returned(step'.out)[Len(Returned(step'.out))] + 1 ]_vars

\* an object has been created by a server set up over a directory in which an
\* earlier run of the server had created one
C23_Witness ==
    /\ step.op = "flush"
    /\ Returned(step.out) # << >>
    /\ database.since = 1
    /\ Len(database.created) >= 2

-----------------------------------------------------------------------------
(* Properties of the State Server and the Client Agent, continued.          *)

\* the OBJECT_LOCATION_ACKs for an object among datagrams
AcksFor(out, do_id) ==
    SelectSeq(out, LAMBDA dg : /\ dg[2] # CONTROL_MESSAGE
                               /\ dg[4] = STATESERVER_OBJECT_LOCATION_ACK
                               /\ dg[5] = do_id)

\* the State Server has handled a datagram of this type for an owned object
OwnedHandled(st, message_type) ==
    /\ st.op = "ss"
    /\ st.dg[4] = message_type
    /\ st.dg[2] \in DOMAIN objects
    /\ objects[st.dg[2]].owner_id # 0

\* a SET_LOCATION that names another location than the object's
Relocated(st) ==
    /\ OwnedHandled(st, STATESERVER_OBJECT_SET_LOCATION)
    /\ << Arg(st.dg, 1), Arg(st.dg, 2) >> #
           << objects[st.dg[2]].parent_id, objects[st.dg[2]].zone_id >>

\* every OBJECT_LOCATION_ACK the State Server writes goes to the object's
\* owner with the locations the object remembers: old parent, old zone,
\* parent, zone
AckAsRemembered ==
    [][ (step'.op = "ss") =>
          \A i \in 1..Len(step'.out) :
              (step'.out[i][2] # CONTROL_MESSAGE
               /\ step'.out[i][4] = STATESERVER_OBJECT_LOCATION_ACK) =>
                  LET self == objects'[step'.out[i][5]]
                  IN  step'.out[i] =
                          RoutedDatagram(self.owner_id, self.do_id, STATESERVER_OBJECT_LOCATION_ACK,
                                         << self.do_id, self.old_parent_id, self.old_zone_id,
                                            self.parent_id, self.zone_id >>) ]_vars

\* a SET_LOCATION applied to an owned object is acknowledged in the step, once,
\* with the location before it and the location it names
RelocationAcked ==
    [][ Relocated(step') =>
          LET self == objects[step'.dg[2]]
          IN  AcksFor(step'.out, self.do_id) =
                  << RoutedDatagram(self.owner_id, self.do_id, STATESERVER_OBJECT_LOCATION_ACK,
                                    << self.do_id, self.parent_id, self.zone_id,
                                       Arg(step'.dg, 1), Arg(step'.dg, 2) >>) >> ]_vars

\* a SET_ZONE leaves in an owned object, as old parent and old zone, the
\* parent and zone it had, and as parent and zone the parent and the new zone
SetZoneRemembers ==
    [][ OwnedHandled(step', STATESERVER_OBJECT_SET_ZONE) =>
          LET self == objects[step'.dg[2]]
              moved == objects'[step'.dg[2]]
          IN  /\ moved.old_parent_id = self.parent_id
              /\ moved.old_zone_id = self.zone_id
              /\ moved.parent_id = self.parent_id
              /\ moved.zone_id = Arg(step'.dg, 1) ]_vars

\* once every message of the SET_ZONE of an owned object has been delivered,
\* the State Server has emitted one OBJECT_LOCATION_ACK for the object
SetZoneAckedOnce ==
    [](LET t == track.transition
       IN  (messages = << >> /\ t.do_id # 0) =>
               Len(SelectSeq(t.events, LAMBDA e : e[1] = STATESERVER_OBJECT_LOCATION_ACK)) = 1)

\* C24: a SET_ZONE or a SET_LOCATION applied to an owned object causes exactly
\* one OBJECT_LOCATION_ACK, sent to the owner, with the parent and zone the
\* object had immediately before and those it has after. For SET_LOCATION the
\* ACK is written in the step itself; for SET_ZONE the step leaves in the
\* object the locations the ACK will carry, and once every message has been
\* delivered the State Server has emitted one ACK for the transition.
C24_OneAckOldAndNew ==
    /\ AckAsRemembered
    /\ RelocationAcked
    /\ SetZoneRemembers
    /\ SetZoneAckedOnce

\* C24, the part that holds: an ACK carries what the object remembers, a
\* SET_ZONE leaves the zone before it as the old zone and the new zone as the
\* zone, and at least one ACK is emitted for it
C24_AckOldZone ==
    /\ AckAsRemembered
    /\ [][ OwnedHandled(step', STATESERVER_OBJECT_SET_ZONE) =>
             LET self == objects[step'.dg[2]]
                 moved == objects'[step'.dg[2]]
             IN  /\ moved.old_zone_id = self.zone_id
                 /\ moved.old_parent_id = self.old_parent_id
                 /\ moved.parent_id = self.parent_id
                 /\ moved.zone_id = Arg(step'.dg, 1) ]_vars

\* a SET_LOCATION to another location has been applied to an owned object
C24_Relocated ==
    /\ step.op = "ss"
    /\ step.dg[4] = STATESERVER_OBJECT_SET_LOCATION
    /\ step.dg[2] \in DOMAIN objects
    /\ objects[step.dg[2]].owner_id # 0
    /\ objects[step.dg[2]].old_zone_id # objects[step.dg[2]].zone_id

\* the State Server has handled a SET_OWNER for an object it has
OwnerSet(st) ==
    /\ st.op = "ss"
    /\ st.dg[4] = STATESERVER_OBJECT_SET_OWNER
    /\ st.dg[2] \in DOMAIN objects

IsOwnerEntry(message_type) ==
    message_type \in { STATESERVER_OBJECT_ENTER_OWNER_WITH_REQUIRED,
                       STATESERVER_OBJECT_ENTER_OWNER_WITH_REQUIRED_OTHER }

\* C28: on SET_OWNER the State Server sends one ENTER_OWNER to the new owner,
\* whatever the object's owner was, and a CHANGING_OWNER to the previous owner
\* if the object had one, and no CHANGING_OWNER if it had none.
C28_OwnerMessages ==
    [][ OwnerSet(step') =>
          LET self == objects[step'.dg[2]]
              new_owner_id == Arg(step'.dg, 1)
              entries == SelectSeq(step'.out, LAMBDA dg : IsOwnerEntry(dg[4]))
              changes == SelectSeq(step'.out,
                                   LAMBDA dg : dg[4] = STATESERVER_OBJECT_CHANGING_OWNER)
          IN  /\ Len(entries) = 1
              /\ entries[1][2] = new_owner_id
              /\ IF self.owner_id # 0
                 THEN changes = << RoutedDatagram(self.owner_id, self.do_id,
                                                  STATESERVER_OBJECT_CHANGING_OWNER,
                                                  << self.do_id, new_owner_id, self.owner_id >>) >>
                 ELSE changes = << >> ]_vars

\* C28, what the code does: nothing for the owner the object has; otherwise
\* the ENTER_OWNER to the new owner, then a CHANGING_OWNER addressed to the
\* previous owner's channel, which is channel 0 where there was none
C28_ChangingOwnerAlways ==
    [][ OwnerSet(step') =>
          LET self == objects[step'.dg[2]]
              new_owner_id == Arg(step'.dg, 1)
          IN  IF new_owner_id = self.owner_id THEN step'.out = << >>
              ELSE /\ Len(step'.out) = 2
                   /\ IsOwnerEntry(step'.out[1][4])
                   /\ step'.out[1][2] = new_owner_id
                   /\ step'.out[2] = RoutedDatagram(self.owner_id, self.do_id,
                                                    STATESERVER_OBJECT_CHANGING_OWNER,
                                                    << self.do_id, new_owner_id, self.owner_id >>) ]_vars

\* a SET_OWNER has been handled for an object that had no owner
C28_FirstOwner ==
    /\ step.op = "ss"
    /\ step.dg[4] = STATESERVER_OBJECT_SET_OWNER
    /\ step.dg[2] \in DOMAIN objects
    /\ objects[step.dg[2]].old_owner_id = 0
    /\ objects[step.dg[2]].owner_id # 0

\* the echo of a client's update to the object's AI channel
Echo(self, dg) ==
    RoutedDatagram(self.ai_channel, dg[3], STATESERVER_OBJECT_UPDATE_FIELD,
                   << self.do_id, Arg(dg, 2) >> \o Rest(dg, 3))

\* a client's update the State Server accepted: it echoed it to the AI channel
ClientUpdateAccepted(st) ==
    /\ ClientUpdateHandled(st)
    /\ Arg(st.dg, 2) \in DOMAIN DCFields
    /\ st.out # << >>
    /\ st.out[1] = Echo(objects[st.dg[2]], st.dg)

\* the object holds the value for the field where its entry messages take it
\* from: the required fields, or the other fields of an object that has some
Carried(self, field, field_args) ==
    IF DCFields[field].required
    THEN field \in DOMAIN self.required_fields /\ self.required_fields[field] = field_args
    ELSE /\ self.has_other
         /\ field \in DOMAIN self.other_fields
         /\ self.other_fields[field] = field_args

\* C29: an accepted client update with arguments for a ram field is stored in
\* the object, in required for a required field and in other otherwise, where
\* the object's later entry messages take the value from.
C29_RamStored ==
    [][ (/\ ClientUpdateAccepted(step')
         /\ Rest(step'.dg, 3) # << >>
         /\ DCFields[Arg(step'.dg, 2)].ram)
            => Carried(objects'[step'.dg[2]], Arg(step'.dg, 2), Rest(step'.dg, 3)) ]_vars

\* C29, the part that holds: the update is stored where the object has other
\* fields already, and nothing of the object changes where it has none
C29_RamStoredWithOther ==
    [][ (/\ ClientUpdateAccepted(step')
         /\ Rest(step'.dg, 3) # << >>
         /\ DCFields[Arg(step'.dg, 2)].ram)
            => IF objects[step'.dg[2]].has_other
               THEN Carried(objects'[step'.dg[2]], Arg(step'.dg, 2), Rest(step'.dg, 3))
               ELSE objects' = objects ]_vars

\* an accepted client update with arguments for a ram field of an object
\* that has no other fields
C29_NoOther ==
    /\ step.op = "ss"
    /\ step.dg[4] = STATESERVER_OBJECT_UPDATE_FIELD
    /\ step.dg[2] \in DOMAIN objects
    /\ ~has_shard(SS, step.dg[3])
    /\ Arg(step.dg, 2) \in DOMAIN DCFields
    /\ DCFields[Arg(step.dg, 2)].ram
    /\ Rest(step.dg, 3) # << >>
    /\ step.out # << >>
    /\ ~objects[step.dg[2]].has_other

\* C30: a client's update of a clsend field is accepted whichever client sends
\* it and whatever the field's other flags are: the State Server echoes it to
\* the object's AI channel.
C30_ClsendAccepted ==
    [][ (/\ ClientUpdateHandled(step')
         /\ Arg(step'.dg, 2) \in DOMAIN DCFields
         /\ DCFields[Arg(step'.dg, 2)].clsend)
            => /\ step'.out # << >>
               /\ step'.out[1] = Echo(objects[step'.dg[2]], step'.dg) ]_vars

\* C30, the part that holds: the update of a clsend field is echoed when the
\* sender's channel has an avatar in it and the field is not ownsend as well,
\* or the sender is the owner; otherwise nothing is sent and nothing stored
C30_ClsendGated ==
    [][ (/\ ClientUpdateHandled(step')
         /\ Arg(step'.dg, 2) \in DOMAIN DCFields
         /\ DCFields[Arg(step'.dg, 2)].clsend)
            => IF /\ get_avatar_id_from_connection_channel(step'.dg[3]) # 0
                  /\ (DCFields[Arg(step'.dg, 2)].ownsend
                         => step'.dg[3] = objects[step'.dg[2]].owner_id)
               THEN step'.out # << >> /\ step'.out[1] = Echo(objects[step'.dg[2]], step'.dg)
               ELSE step'.out = << >> /\ objects' = objects ]_vars

\* the update of a field that is clsend and ownsend, sent by a client with an
\* avatar that does not own the object
C30_NotOwner ==
    /\ step.op = "ss"
    /\ step.dg[4] = STATESERVER_OBJECT_UPDATE_FIELD
    /\ step.dg[2] \in DOMAIN objects
    /\ ~has_shard(SS, step.dg[3])
    /\ Arg(step.dg, 2) \in DOMAIN DCFields
    /\ DCFields[Arg(step.dg, 2)].clsend /\ DCFields[Arg(step.dg, 2)].ownsend
    /\ get_avatar_id_from_connection_channel(step.dg[3]) # 0
    /\ step.dg[3] # objects[step.dg[2]].owner_id

\* client c's handler has taken the OBJECT_LOCATION_ACK that ends its change
\* of zone
ZoneChangeHandled(st, c) ==
    /\ st.op = "ca"
    /\ st.dg[4] = STATESERVER_OBJECT_LOCATION_ACK
    /\ st.dg[2] \in DOMAIN client_channels
    /\ client_channels[st.dg[2]] = c
    /\ clients[c].location_cb = "zone"

\* the step has written CLIENT_OBJECT_DELETE_RESP(do_id) to client c
DeleteSent(st, c, do_id) ==
    \E i \in 1..Len(st.sent) :
        /\ st.sent[i].client = c
        /\ st.sent[i].message = << CLIENT_OBJECT_DELETE_RESP, do_id >>

\* C25: when a change of zone takes a zone out of a client's interest, the
\* client is sent a CLIENT_OBJECT_DELETE_RESP for every object seen in that
\* zone that it does not own, however many they are, and the zone's seen list
\* is dropped; no object the client does not own leaves the seen lists without
\* its delete being sent.
C25_DeletesForLeftZones ==
    [][ \A c \in ClientIds :
          ZoneChangeHandled(step', c) =>
              /\ \A z \in DOMAIN clients[c].seen_objects :
                     (has_interest_zone(clients[c], z) /\ ~has_interest_zone(clients'[c], z))
                         => /\ z \notin DOMAIN clients'[c].seen_objects
                            /\ \A i \in 1..Len(clients[c].seen_objects[z]) :
                                   \/ InList(clients[c].seen_objects[z][i], clients[c].owned_objects)
                                   \/ DeleteSent(step', c, clients[c].seen_objects[z][i])
              /\ \A z \in DOMAIN clients[c].seen_objects :
                     \A i \in 1..Len(clients[c].seen_objects[z]) :
                         \/ InList(clients[c].seen_objects[z][i], clients[c].owned_objects)
                         \/ has_seen_object(clients'[c], clients[c].seen_objects[z][i])
                         \/ DeleteSent(step', c, clients[c].seen_objects[z][i]) ]_vars

\* C25, the part that holds: the seen list of the zone the avatar has left is
\* dropped, the deletes written are of objects seen in that zone and not owned,
\* and the first such object of the list has its delete written
C25_FirstDeleted ==
    [][ \A c \in ClientIds :
          (/\ ZoneChangeHandled(step', c)
           /\ Arg(step'.dg, 3) # Arg(step'.dg, 5)
           /\ ~(get_in_street_branch(Arg(step'.dg, 5)) /\ clients[c].in_street_branch))
              => LET old_zone_id == Arg(step'.dg, 3)
                     kept == IF clients[c].in_street_branch
                             THEN leave_branch_loop(clients[c], clients[c].branch_interest_zones)
                             ELSE clients[c]
                     seen_objects == IF old_zone_id \in DOMAIN kept.seen_objects
                                     THEN kept.seen_objects[old_zone_id] ELSE << >>
                     others == SelectSeq(seen_objects,
                                         LAMBDA do_id : ~InList(do_id, clients[c].owned_objects))
                 IN /\ old_zone_id \notin DOMAIN clients'[c].seen_objects
                    /\ others # << >> => DeleteSent(step', c, others[1])
                    /\ \A i \in 1..Len(step'.sent) :
                           step'.sent[i].message[1] = CLIENT_OBJECT_DELETE_RESP
                               => /\ step'.sent[i].client = c
                                  /\ InList(step'.sent[i].message[2], others) ]_vars

\* a client has left a zone in which it had seen two objects that it does not own
C25_TwoSeen ==
    /\ step.op = "ca"
    /\ step.dg[4] = STATESERVER_OBJECT_LOCATION_ACK
    /\ step.dg[2] \in DOMAIN client_channels
    /\ Arg(step.dg, 3) # Arg(step.dg, 5)
    /\ ~has_interest_zone(clients[client_channels[step.dg[2]]], Arg(step.dg, 3))
    /\ Len(SelectSeq(step.sent, LAMBDA s : s.message[1] = CLIENT_OBJECT_DELETE_RESP)) = 1
    /\ \E do_id \in DOMAIN objects :
           /\ objects[do_id].zone_id = Arg(step.dg, 3)
           /\ ~DeleteSent(step, client_channels[step.dg[2]], do_id)
           /\ ~InList(do_id, clients[client_channels[step.dg[2]]].owned_objects)
           /\ do_id # Arg(step.dg, 1)

\* client c's handler has taken an ENTER_LOCATION of an object
EnterLocationHandled(st, c) ==
    /\ st.op = "ca"
    /\ st.dg[4] \in { STATESERVER_OBJECT_ENTER_LOCATION_WITH_REQUIRED,
                      STATESERVER_OBJECT_ENTER_LOCATION_WITH_REQUIRED_OTHER }
    /\ Receiver(st.dg) = c

\* the step has written a create of do_id to client c
CreateSent(st, c, do_id) ==
    \E i \in 1..Len(st.sent) :
        /\ st.sent[i].client = c
        /\ st.sent[i].message[1] \in { CLIENT_CREATE_OBJECT_REQUIRED,
                                       CLIENT_CREATE_OBJECT_REQUIRED_OTHER }
        /\ st.sent[i].message[3] = do_id

\* C26: on ENTER_LOCATION of do_id in zone z the client is sent the create
\* only if do_id is neither seen nor owned, z is in its interest and the object
\* is not a toon in the quiet zone; with the create do_id is added to seen[z]
\* and is no longer pending, and without it the seen and pending objects are
\* unchanged and nothing is written to the client.
C26_CreateOnlyIfNew ==
    [][ \A c \in ClientIds :
          EnterLocationHandled(step', c) =>
              LET do_id == Arg(step'.dg, 1)
                  zone_id == Arg(step'.dg, 3)
                  dc_id == Arg(step'.dg, 4)
              IN IF CreateSent(step', c, do_id)
                 THEN /\ ~has_seen_object(clients[c], do_id)
                      /\ ~InList(do_id, clients[c].owned_objects)
                      /\ has_interest_zone(clients[c], zone_id)
                      /\ ~(dc_id = DistributedToon /\ zone_id = OTP_ZONE_ID_OLD_QUIET_ZONE)
                      /\ zone_id \in DOMAIN clients'[c].seen_objects
                      /\ InList(do_id, clients'[c].seen_objects[zone_id])
                      /\ ~InList(do_id, clients'[c].pending_objects)
                 ELSE /\ clients'[c].seen_objects = clients[c].seen_objects
                      /\ clients'[c].pending_objects = clients[c].pending_objects
                      /\ step'.sent = << >> ]_vars

\* a client has been sent the create of an object it was waiting for
C26_Witness ==
    /\ \E c \in ClientIds :
           /\ EnterLocationHandled(step, c)
           /\ CreateSent(step, c, Arg(step.dg, 1))
           /\ has_seen_object(clients[c], Arg(step.dg, 1))
           /\ clients[c].interest_timeout_task

\* an ENTER_LOCATION for a zone outside the client's interest was dropped
C26_Dropped ==
    /\ \E c \in ClientIds :
           /\ EnterLocationHandled(step, c)
           /\ step.sent = << >>
           /\ ~has_interest_zone(clients[c], Arg(step.dg, 3))
           /\ ~has_seen_object(clients[c], Arg(step.dg, 1))
           /\ ~InList(Arg(step.dg, 1), clients[c].owned_objects)

\* the deferred callback of client c's change of zone is called with False:
\* the objects of its zones are announced while the handshake is open
FalseCall(st, c) ==
    /\ st.op = "ca"
    /\ st.dg[4] = STATESERVER_OBJECT_GET_ZONES_OBJECTS_RESP
    /\ Receiver(st.dg) = c
    /\ clients[c].generate_cb # << >>

\* the zone replies the step has written to client c
ZoneReplies(st, c) ==
    LET replies == SelectSeq(st.sent,
                             LAMBDA s : /\ s.client = c
                                        /\ s.message[1] \in { CLIENT_DONE_SET_ZONE_RESP,
                                                              CLIENT_GET_STATE_RESP })
    IN [ i \in 1..Len(replies) |-> replies[i].message ]

\* the replies of the table for a call of the callback kept as cb, where
\* again says whether a True call for a first entry into a normal zone replies
TableReplies(complete, cb, again) ==
    LET old_zone_id == cb[2]
        new_zone_id == cb[4]
    IN IF new_zone_id = OTP_ZONE_ID_OLD_QUIET_ZONE
       THEN IF ~complete THEN << >>
            ELSE IF old_zone_id = 0 THEN << << CLIENT_DONE_SET_ZONE_RESP, new_zone_id >> >>
            ELSE << << CLIENT_GET_STATE_RESP, new_zone_id >> >>
       ELSE IF ~complete
            THEN IF old_zone_id = 0 THEN << << CLIENT_DONE_SET_ZONE_RESP, new_zone_id >> >>
                 ELSE << << CLIENT_GET_STATE_RESP, new_zone_id >> >>
            ELSE IF old_zone_id = 0 /\ ~again THEN << >>
                 ELSE << << CLIENT_DONE_SET_ZONE_RESP, new_zone_id >> >>

\* the zone replies of a step are those of the table for the calls of the
\* callback the step makes
RepliesFollow(again) ==
    \A c \in ClientIds :
      LET cb == clients[c].generate_cb
          completed == /\ cb # << >>
                       /\ clients'[c].generate_cb = << >>
                       /\ clients'[c].connected
      IN (FalseCall(step', c) \/ completed)
            => ZoneReplies(step', c) =
                   (IF FalseCall(step', c) THEN TableReplies(FALSE, cb, again) ELSE << >>)
                \o (IF completed
                    THEN TableReplies(TRUE, cb, again) ELSE << >>)

\* C27: the replies of an interest handshake follow the reply table: for the
\* quiet zone DONE_SET_ZONE_RESP (old zone 0) or GET_STATE_RESP (old zone not 0)
\* on completion; for a normal zone DONE_SET_ZONE_RESP (old zone 0) or
\* GET_STATE_RESP (old zone not 0) on the False call, and DONE_SET_ZONE_RESP on
\* the True call whatever the old zone.
C27_ReplyTable == [][RepliesFollow(TRUE)]_vars

\* C27, the part that holds: the table with no reply on the True call for a
\* first entry (old zone 0) into a normal zone
C27_NoSecondDone == [][RepliesFollow(FALSE)]_vars

\* the handshake of a first entry into a normal zone has completed
C27_FirstEntry ==
    /\ \E c \in ClientIds :
           /\ track.replied[c].type = CLIENT_DONE_SET_ZONE_RESP
           /\ track.replied[c].zone # OTP_ZONE_ID_OLD_QUIET_ZONE
           /\ clients[c].generate_cb = << >>
           /\ clients[c].connected
           /\ step.op \in { "ca", "interest_timeout" }
           /\ step.sent = << >>
           /\ AvatarZone(c) = track.replied[c].zone
           /\ clients[c].pending_objects = << >>
           /\ ~clients[c].interest_timeout_task

-----------------------------------------------------------------------------
(* Properties of the Message Director, continued.                           *)

\* C33: a CONTROL_REMOVE_CHANNEL(c) from a peer other than the participant
\* bound to c leaves c bound as it was and replays none of c's post-removes:
\* nothing is handled and the post-remove queue of c is as before.
C33_OnlyHolderRemoves ==
    [][ \A c \in Channels :
          (/\ last'.op = "remove_channel"
           /\ last'.channel = c
           /\ participants[c] \notin { None, last'.conn })
              => /\ participants'[c] = participants[c]
                 /\ post_messages'[c] = post_messages[c]
                 /\ EventsOf(last'.events, "replay") = << >>
                 /\ EventsOf(last'.events, "unbind") = << >> ]_vars

\* C33, the part that holds: a REMOVE_CHANNEL(c) for a bound channel unbinds it
\* and replays its post-removes, whichever peer sends it, and one for a
\* channel that is not bound changes neither
C33_AnyPeerRemoves ==
    [][ \A c \in Channels :
          (last'.op = "remove_channel" /\ last'.channel = c)
              => IF participants[c] # None
                 THEN /\ participants'[c] = None
                      /\ post_messages'[c] = << >>
                      /\ EventsOf(last'.events, "replay") = ReplaysOf(c)
                 ELSE /\ participants'[c] = None
                      /\ post_messages'[c] = post_messages[c]
                      /\ EventsOf(last'.events, "replay") = << >> ]_vars

-----------------------------------------------------------------------------
(* Properties of the State Server and the Client Agent, continued.          *)

\* the channels of objects the State Server holds at the Message Director
Subscribed == { channel \in ClusterChannels :
                    channel # STATESERVER_CHANNEL /\ participants[channel] = SSConn }

\* C40: the object channels the State Server holds subscribed at the Message
\* Director are the ids of its live objects: subscribed at creation,
\* unsubscribed at destruction by DELETE_RAM or by the teardown of the shard.
C40_SubscribedAreLive == Subscribed = DOMAIN objects

\* C40, the part that holds: every live object's id is subscribed
C40_LiveSubscribed == DOMAIN objects \subseteq Subscribed

\* an object has been destroyed by a DELETE_RAM
C40_Deleted ==
    /\ step.op = "ss"
    /\ step.dg[4] = STATESERVER_OBJECT_DELETE_RAM
    /\ Arg(step.dg, 1) \notin DOMAIN objects
    /\ Arg(step.dg, 1) \in track.deleted

\* the objects whose zone index lists do_id
ListedBy(do_id) == { parent \in DOMAIN objects : has_child(objects[parent], do_id) }

\* no OBJECT_CHANGING_LOCATION waits in the Message Director's queue
NoChangeInFlight ==
    \A i \in 1..Len(messages) :
        messages[i].message_type # STATESERVER_OBJECT_CHANGING_LOCATION

\* C34: while no OBJECT_CHANGING_LOCATION is in flight, every live object is
\* listed in the zone index of at most one object, and an object that lists it
\* is its current parent and lists it at its current zone (so no former parent
\* still lists it).
C34_ZoneIndex ==
    NoChangeInFlight =>
        \A do_id \in DOMAIN objects :
            /\ Cardinality(ListedBy(do_id)) <= 1
            /\ \A parent \in ListedBy(do_id) :
                   /\ parent = objects[do_id].parent_id
                   /\ get_zone_from_child(objects[parent], do_id) = objects[do_id].zone_id

\* C34, the part that holds: an object is listed at most once in the index of
\* any one object
C34_ListedOnce ==
    \A do_id \in DOMAIN objects : \A parent \in DOMAIN objects :
        Len(SelectSeq(get_all_zone_objects(SS, objects[parent]), LAMBDA d : d = do_id)) <= 1

\* the parent of client c's avatar
AvatarParent(c) ==
    LET avatar_id == get_avatar_id_from_connection_channel(clients[c].channel)
    IN IF avatar_id \in DOMAIN objects THEN objects[avatar_id].parent_id ELSE 0

\* client c's handler has taken the OBJECT_CHANGING_LOCATION of an object it
\* has seen and does not own
SeenObjectMoved(st, c) ==
    /\ st.op = "ca"
    /\ st.dg[4] = STATESERVER_OBJECT_CHANGING_LOCATION
    /\ Receiver(st.dg) = c
    /\ has_seen_object(clients[c], Arg(st.dg, 1))
    /\ ~InList(Arg(st.dg, 1), clients[c].owned_objects)

\* C38: when an object a client has seen moves under a parent other than that
\* of the client's avatar, the client is sent CLIENT_OBJECT_DELETE_RESP for it
\* and no longer has it among its seen objects, whether or not the new zone
\* id is in the client's interest.
C38_DeleteOnParentChange ==
    [][ \A c \in ClientIds :
          (SeenObjectMoved(step', c) /\ Arg(step'.dg, 2) # AvatarParent(c))
              => /\ DeleteSent(step', c, Arg(step'.dg, 1))
                 /\ ~has_seen_object(clients'[c], Arg(step'.dg, 1)) ]_vars

\* C38, the part that holds: the delete is written exactly when the new zone
\* id is outside the client's interest, whatever the new parent is
C38_DeleteByZoneOnly ==
    [][ \A c \in ClientIds :
          SeenObjectMoved(step', c)
              => IF has_interest_zone(clients[c], Arg(step'.dg, 3))
                 THEN step'.sent = << >> /\ clients' = clients
                 ELSE /\ DeleteSent(step', c, Arg(step'.dg, 1))
                      /\ ~has_seen_object(clients'[c], Arg(step'.dg, 1)) ]_vars

\* every message is delivered and a client still has among its seen objects
\* one whose parent is not that of its own avatar
C38_SeenElsewhere ==
    /\ messages = << >>
    /\ \E c \in ClientIds : \E do_id \in DOMAIN objects :
           /\ has_seen_object(clients[c], do_id)
           /\ ~InList(do_id, clients[c].owned_objects)
           /\ objects[do_id].parent_id # AvatarParent(c)
           /\ objects[do_id].zone_id = AvatarZone(c)

\* C39: when the Client Agent handles the ENTER_LOCATION of the last object a
\* client is waiting for, the interest handshake is complete in that step:
\* nothing is pending, the completion callback is spent and the
\* interest-timeout task is no longer scheduled.
C39_LastEntryCompletes ==
    [][ \A c \in ClientIds :
          (/\ EnterLocationHandled(step', c)
           /\ clients[c].pending_objects # << >>
           /\ \A i \in 1..Len(clients[c].pending_objects) :
                  clients[c].pending_objects[i] = Arg(step'.dg, 1))
              => /\ clients'[c].pending_objects = << >>
                 /\ clients'[c].generate_cb = << >>
                 /\ ~clients'[c].interest_timeout_task ]_vars

\* C39, as a state property: the interest-timeout task of a client is
\* scheduled only while the client waits for an object
C39_TaskOnlyWhilePending ==
    \A c \in ClientIds :
        clients[c].interest_timeout_task => clients[c].pending_objects # << >>

\* C39, the part that holds: the handshake completes in the step that writes
\* the create of the last pending object to the client
C39_CreateOfLastCompletes ==
    [][ \A c \in ClientIds :
          (/\ EnterLocationHandled(step', c)
           /\ CreateSent(step', c, Arg(step'.dg, 1))
           /\ InList(Arg(step'.dg, 1), clients[c].pending_objects)
           /\ ListRemove(clients[c].pending_objects, Arg(step'.dg, 1)) = << >>)
              => /\ clients'[c].pending_objects = << >>
                 /\ clients'[c].generate_cb = << >>
                 /\ ~clients'[c].interest_timeout_task ]_vars

\* the create of the last pending object has completed a handshake
C39_Completed ==
    \E c \in ClientIds :
        /\ EnterLocationHandled(step, c)
        /\ CreateSent(step, c, Arg(step.dg, 1))
        /\ clients[c].pending_objects = << >>
        /\ ~clients[c].interest_timeout_task
        /\ step.out = << >>

\* C32: no timer of a client runs after the client's connection has been
\* cleaned up: neither the interest-timeout task nor the delayed
\* avatar-activation task fires for a client that is no longer connected.
C32_NoTimerAfterCleanup ==
    [][ step'.op \in { "interest_timeout", "activate_avatar" }
            => clients[step'.client].connected ]_vars

\* C32, the state form: a client that is not connected has no task scheduled
C32_NoTaskScheduled ==
    \A c \in ClientIds :
        ~clients[c].connected
            => ~clients[c].interest_timeout_task /\ clients[c].activating = 0

\* the interest-timeout task has fired for a client that has disconnected
C32_TimeoutAfterCleanup ==
    /\ step.op = "interest_timeout"
    /\ ~clients[step.client].connected

\* the avatar-activation task has fired for a client that has disconnected
C32_ActivationAfterCleanup ==
    /\ step.op = "activate_avatar"
    /\ ~clients[step.client].connected

\* C35: a doId enters a client's owned objects only when the Client Agent
\* handles an owner-entry message of the State Server for that doId that is
\* addressed to a channel of that client; no request of the client itself
\* adds an object to them.
C35_OwnedByOwnerEntry ==
    [][ \A c \in ClientIds :
          Len(clients'[c].owned_objects) > Len(clients[c].owned_objects)
              => /\ step'.op = "ca"
                 /\ IsOwnerEntry(step'.dg[4])
                 /\ client_channels[step'.dg[2]] = c
                 /\ clients'[c].owned_objects
                        = Append(clients[c].owned_objects, Arg(step'.dg, 1)) ]_vars

\* C35, the state form where no State Server has announced anything: no
\* client owns an object
C35_NothingOwned == \A c \in ClientIds : clients[c].owned_objects = << >>

\* the answer to CLIENT_GET_AVATAR_DETAILS has made a client the owner of an
\* avatar that another connection created
C35_OwnedByRequest ==
    /\ step.op = "response"
    /\ step.client \in ClientIds
    /\ \E fsm \in 1..Len(agent.fsms) :
          /\ agent.fsms[fsm].cls = "CreateAvatarFSM"
          /\ agent.fsms[fsm].client # step.client
          /\ \E i \in 1..Len(agent.requested) :
                /\ agent.requested[i].fsm = fsm
                /\ agent.requested[i].avatar_id # 0
                /\ InList(agent.requested[i].avatar_id, clients[step.client].owned_objects)

\* the operations clients ask the account manager for
OperationRequests == { "login", "create_avatar", "delete_avatar", "get_avatar_details" }

\* the operation the registry holds under a channel
Registered(channel) == agent.fsms[agent.channel2fsm[channel]]

\* C36: an entry of the operation registry is gone once its operation has
\* ended, by success, by a failed reply or by the disconnect of its client:
\* every entry is an operation of a connection that is still open and that
\* holds the entry's channel as its allocated channel.
C36_NoStaleEntry ==
    \A channel \in DOMAIN agent.channel2fsm :
        /\ Registered(channel).client \notin agent.closed
        /\ clients[Registered(channel).client].allocated_channel = channel

\* C36, for the requests: a request of a connection none of whose operations
\* is registered is not refused
C36_RequestNotBlocked ==
    [][ (/\ step'.op \in OperationRequests
         /\ \A channel \in DOMAIN agent.channel2fsm :
                Registered(channel).client # step'.client)
            => Len(agent'.fsms) = Len(agent.fsms) + 1 ]_vars

\* a connection that was handed the channel of a closed one has had its
\* login refused, because the closed connection's operation is still
\* registered
C36_Blocked ==
    /\ step.op = "login"
    /\ step.out = << >>
    /\ clients[step.client].allocated_channel \in DOMAIN agent.channel2fsm
    /\ Registered(clients[step.client].allocated_channel).client \in agent.closed

\* every operation has ended and every message has been handled
Settled ==
    /\ agent.running /\ database.running
    /\ agent.channel2fsm = EmptyDict
    /\ agent.outbox = << >> /\ agent.inbox = << >>
    /\ database.operations = << >>

\* the avatar a completed CreateAvatar operation has put in its slot: the one
\* its second request carried
CreatedBy(fsm) ==
    LET i == CHOOSE j \in 1..Len(agent.requested) :
                 /\ agent.requested[j].fsm = fsm
                 /\ agent.requested[j].method = "CreateAvatarFSM.__account_loaded"
    IN agent.requested[i].avatar_id

\* the account's avatar list as the Database Server has stored it
StoredAvSet(account_id) == UnpackAvSet(database.disk[account_id].fields[ACCOUNT_AV_SET])

\* a CreateAvatar operation has completed
CreateCompleted(fsm) ==
    /\ agent.fsms[fsm].cls = "CreateAvatarFSM"
    /\ agent.fsms[fsm].completed = 1

\* a DeleteAvatar operation of another connection on the same account, for
\* another avatar, has completed too
DeleteCompletedBeside(fsm) ==
    \E other \in 1..Len(agent.fsms) :
        /\ agent.fsms[other].cls = "DeleteAvatarFSM"
        /\ agent.fsms[other].completed = 1
        /\ agent.fsms[other].client # agent.fsms[fsm].client
        /\ agent.fsms[other].account_id = agent.fsms[fsm].account_id
        /\ agent.fsms[other].avatar_id # CreatedBy(fsm)

\* C37: avatar-slot operations on one account from different connections
\* lose no update: once a CreateAvatar and the DeleteAvatar operations of
\* other avatars have completed and everything is stored, the avatar the
\* CreateAvatar put in its slot is in that slot of the stored ACCOUNT_AV_SET.
C37_NoLostSlot ==
    Settled =>
        \A fsm \in 1..Len(agent.fsms) :
            (/\ CreateCompleted(fsm)
             /\ \A other \in 1..Len(agent.fsms) :
                    /\ agent.fsms[other].cls = "DeleteAvatarFSM" =>
                           agent.fsms[other].avatar_id # CreatedBy(fsm)
                    /\ (other # fsm /\ agent.fsms[other].cls = "CreateAvatarFSM") =>
                           agent.fsms[other].index # agent.fsms[fsm].index)
                => StoredAvSet(agent.fsms[fsm].account_id)[agent.fsms[fsm].index] = CreatedBy(fsm)

\* a CreateAvatar and a DeleteAvatar of another connection have both
\* completed and everything is stored
C37_BothCompleted ==
    /\ Settled
    /\ \E fsm \in 1..Len(agent.fsms) : CreateCompleted(fsm) /\ DeleteCompletedBeside(fsm)

\* C37 for operations that do not overlap: the slot a CreateAvatar has written
\* is stored when no DeleteAvatar has run
C37_StoredAlone ==
    Settled =>
        \A fsm \in 1..Len(agent.fsms) :
            (/\ CreateCompleted(fsm)
             /\ \A other \in 1..Len(agent.fsms) :
                    other # fsm => agent.fsms[other].cls \notin { "CreateAvatarFSM", "DeleteAvatarFSM" })
                => StoredAvSet(agent.fsms[fsm].account_id)[agent.fsms[fsm].index] = CreatedBy(fsm)

\* a client has handed a response of the Database Server to the agent's
\* database interface
ResponseHandled(st) ==
    /\ st.op \in { "response", "unexpected" }
    /\ st.client \in ClientIds
    /\ st.dg[4] \in { DBSERVER_CREATE_OBJECT_RESP, DBSERVER_OBJECT_GET_ALL_RESP }

\* what a response to a context without an entry must leave alone
InterfaceState(g, cs, chs) ==
    << g.channel2fsm, g.fsms, g.context, g.callbacks, g.dclasses, g.dbm, g.outbox, g.running,
       cs, chs >>

\* the step of C31 for a response that carries context ctx
CallbackOfContext(ctx) ==
    IF ctx \in DOMAIN agent.callbacks
    THEN /\ Len(agent'.calls) <= 1
         /\ \A i \in 1..Len(agent'.calls) : agent'.calls[i] = agent.requested[ctx]
         /\ agent'.running =>
                /\ agent'.calls = << agent.requested[ctx] >>
                /\ ctx \notin DOMAIN agent'.callbacks
    ELSE /\ agent'.calls = << >>
         /\ step'.out = << >> /\ step'.sent = << >>
         /\ InterfaceState(agent', clients', client_channels')
                = InterfaceState(agent, clients, client_channels)

\* C31: a response the database interface handles invokes the callback that
\* the request with the same context registered, and no other, at most once,
\* and the context's entry is gone when the handler returns; a response whose
\* context has no entry invokes nothing and changes nothing.
C31_CallbackOfContext ==
    [][ ResponseHandled(step') => CallbackOfContext(Arg(step'.dg, 1)) ]_vars

\* a response of the Database Server to a request has invoked the request's
\* callback, whose entry is gone
C31_CallbackInvoked ==
    /\ step.op = "response"
    /\ ResponseHandled(step)
    /\ agent.running
    /\ agent.calls = << agent.requested[Arg(step.dg, 1)] >>
    /\ Arg(step.dg, 1) \notin DOMAIN agent.callbacks

\* a response whose context has no entry has been handled while another
\* context has one
C31_NoEntry ==
    /\ step.op = "unexpected"
    /\ agent.calls = << >>
    /\ agent.callbacks # EmptyDict
    /\ Arg(step.dg, 1) \notin DOMAIN agent.callbacks

\* an unexpected failure has invoked the callback of a pending context
C31_EntryOfUnexpected ==
    /\ step.op = "unexpected"
    /\ agent.calls # << >>

====
